---------------------------- MODULE Spec2Model ----------------------------
(***************************************************************************)
(* A model of the client side of SSH user authentication, src/src/auth.c.  *)
(*                                                                         *)
(* The session is one record (struct ssh_session_struct, the fields that   *)
(* auth.c reads or writes).  Every C function of auth.c is an operator     *)
(* from a session and the function's inputs to the session it leaves       *)
(* behind, its return value and the packets it put on the wire.  What the  *)
(* environment decides (the packets the transport delivers during a wait,  *)
(* an allocation that fails, a send that fails, the outcome of the service *)
(* request) is an explicit input of the operator, and the actions draw it  *)
(* from small sets.                                                        *)
(*                                                                         *)
(* The server's packets in flight are the queue inq.  A packet's payload   *)
(* is drawn when the packet is parsed; the queue holds the message numbers.*)
(* A process that crashes takes no further step: a behaviour may stop in   *)
(* any state, so a crash needs no state of its own.                        *)
(***************************************************************************)
EXTENDS Integers, Sequences, FiniteSets, TLC

VARIABLES
    session,   \* the ssh_session the calls work on
    inq,       \* message numbers of the server's packets not yet handled
    call,      \* the operation of the last step, with its arguments
    rc,        \* what that operation returned
    wire,      \* the packets that operation sent, in order
    pkt,       \* the last packet that operation handled, NoPacket if none
    waiting    \* the driver that returned AGAIN from its wait and has not
               \* come back with a result since, "-" if none

vars == <<session, inq, call, rc, wire, pkt, waiting>>

---------------------------------------------------------------------------
(* Bounds of the model.                                                    *)

\* packets the server may have in flight
MaxInflight == 1
\* entries of the method list of a USERAUTH_FAILURE
MaxEntries == 2
\* KBDINT_MAX_PROMPT of libssh/auth.h, scaled down; auth.c uses it at 1657
KBDINT_MAX_PROMPT == 2
\* identities the agent holds, identity files of the session
MaxIdentities == 2

---------------------------------------------------------------------------
(* Values of the C enums and return codes, by name.                        *)

SSH_AUTH_SUCCESS == "SSH_AUTH_SUCCESS"
SSH_AUTH_DENIED  == "SSH_AUTH_DENIED"
SSH_AUTH_PARTIAL == "SSH_AUTH_PARTIAL"
SSH_AUTH_INFO    == "SSH_AUTH_INFO"
SSH_AUTH_AGAIN   == "SSH_AUTH_AGAIN"
SSH_AUTH_ERROR   == "SSH_AUTH_ERROR"
\* SSH_ERROR and SSH_AUTH_ERROR are the same integer (-1) in libssh.h; the
\* drivers return either, and ssh_userauth_agent compares one with the other.
SSH_ERROR == SSH_AUTH_ERROR
SSH_OK    == "SSH_OK"
SSH_AGAIN == "SSH_AGAIN"
SSH_EOF   == "SSH_EOF"
NO_RC     == "-"

SSH_AUTH_STATE_NONE        == "SSH_AUTH_STATE_NONE"
SSH_AUTH_STATE_PARTIAL     == "SSH_AUTH_STATE_PARTIAL"
SSH_AUTH_STATE_SUCCESS     == "SSH_AUTH_STATE_SUCCESS"
SSH_AUTH_STATE_FAILED      == "SSH_AUTH_STATE_FAILED"
SSH_AUTH_STATE_ERROR       == "SSH_AUTH_STATE_ERROR"
SSH_AUTH_STATE_INFO        == "SSH_AUTH_STATE_INFO"
SSH_AUTH_STATE_PK_OK       == "SSH_AUTH_STATE_PK_OK"
SSH_AUTH_STATE_KBDINT_SENT == "SSH_AUTH_STATE_KBDINT_SENT"

AuthStates ==
    { SSH_AUTH_STATE_NONE, SSH_AUTH_STATE_PARTIAL, SSH_AUTH_STATE_SUCCESS,
      SSH_AUTH_STATE_FAILED, SSH_AUTH_STATE_ERROR, SSH_AUTH_STATE_INFO,
      SSH_AUTH_STATE_PK_OK, SSH_AUTH_STATE_KBDINT_SENT }

SSH_PENDING_CALL_NONE              == "SSH_PENDING_CALL_NONE"
SSH_PENDING_CALL_AUTH_NONE         == "SSH_PENDING_CALL_AUTH_NONE"
SSH_PENDING_CALL_AUTH_OFFER_PUBKEY == "SSH_PENDING_CALL_AUTH_OFFER_PUBKEY"
SSH_PENDING_CALL_AUTH_PUBKEY       == "SSH_PENDING_CALL_AUTH_PUBKEY"
SSH_PENDING_CALL_AUTH_AGENT        == "SSH_PENDING_CALL_AUTH_AGENT"

SSH_SESSION_STATE_AUTHENTICATING == "SSH_SESSION_STATE_AUTHENTICATING"
SSH_SESSION_STATE_AUTHENTICATED  == "SSH_SESSION_STATE_AUTHENTICATED"

SSH_NO_ERROR       == "SSH_NO_ERROR"
SSH_REQUEST_DENIED == "SSH_REQUEST_DENIED"
SSH_FATAL          == "SSH_FATAL"

SSH_AUTH_METHOD_PASSWORD    == "SSH_AUTH_METHOD_PASSWORD"
SSH_AUTH_METHOD_PUBLICKEY   == "SSH_AUTH_METHOD_PUBLICKEY"
SSH_AUTH_METHOD_HOSTBASED   == "SSH_AUTH_METHOD_HOSTBASED"
SSH_AUTH_METHOD_INTERACTIVE == "SSH_AUTH_METHOD_INTERACTIVE"

SSH2_MSG_USERAUTH_REQUEST       == "SSH2_MSG_USERAUTH_REQUEST"
SSH2_MSG_USERAUTH_FAILURE       == "SSH2_MSG_USERAUTH_FAILURE"
SSH2_MSG_USERAUTH_SUCCESS       == "SSH2_MSG_USERAUTH_SUCCESS"
SSH2_MSG_USERAUTH_BANNER        == "SSH2_MSG_USERAUTH_BANNER"
SSH2_MSG_USERAUTH_PK_OK         == "SSH2_MSG_USERAUTH_PK_OK"
SSH2_MSG_USERAUTH_INFO_RESPONSE == "SSH2_MSG_USERAUTH_INFO_RESPONSE"

\* the messages the dispatcher routes to auth.c; PK_OK and INFO_REQUEST
\* are the same message number
MsgTypes ==
    { SSH2_MSG_USERAUTH_FAILURE, SSH2_MSG_USERAUTH_SUCCESS,
      SSH2_MSG_USERAUTH_BANNER, SSH2_MSG_USERAUTH_PK_OK }

\* a char* that is NULL
NULL_STR == "<NULL>"

---------------------------------------------------------------------------
(* C strings, where the code looks inside them: sequences of characters.   *)

str_password  == <<"p","a","s","s","w","o","r","d">>
str_publickey == <<"p","u","b","l","i","c","k","e","y">>
str_hostbased == <<"h","o","s","t","b","a","s","e","d">>
str_keyboard_interactive ==
    <<"k","e","y","b","o","a","r","d","-","i","n","t","e","r","a","c","t","i","v","e">>
\* method names auth.c does not know
str_gssapi    == <<"g","s","s","a","p","i">>
str_xpassword == <<"x","p","a","s","s","w","o","r","d">>

\* strstr(haystack, needle) != NULL
strstr(haystack, needle) ==
    \E i \in 1..(Len(haystack) - Len(needle) + 1) :
        SubSeq(haystack, i, i + Len(needle) - 1) = needle

---------------------------------------------------------------------------
(* The keyboard-interactive scratch, struct ssh_kbdint_struct.  ref tells  *)
(* what session->kbdint points at: nothing, a live scratch, or a scratch   *)
(* that was freed.  A NULL array is the empty sequence.                    *)

KbdNull ==
    [ ref |-> "NULL", name |-> NULL_STR, instruction |-> NULL_STR,
      nprompts |-> 0, nanswers |-> 0,
      prompts |-> <<>>, echo |-> <<>>, answers |-> <<>> ]

ssh_kbdint_new == [KbdNull EXCEPT !.ref = "live"]

\* the scratch after free(): the pointer that is left refers to freed memory
ssh_kbdint_free(kbd) ==
    IF kbd.ref = "NULL" THEN kbd ELSE [KbdNull EXCEPT !.ref = "freed"]

ssh_kbdint_clean(kbd) ==
    IF kbd.ref = "NULL" THEN kbd ELSE [KbdNull EXCEPT !.ref = kbd.ref]

---------------------------------------------------------------------------
(* The session.                                                            *)

ssh_set_error(s, code) == [s EXCEPT !.error_code = code]

\* ssh_set_error_oom records a fatal "Not enough space" error
ssh_set_error_oom(s) == ssh_set_error(s, SSH_FATAL)

\* ssh_set_error_invalid records a fatal "Invalid argument" error
ssh_set_error_invalid(s) == ssh_set_error(s, SSH_FATAL)

\* What a read through session->kbdint gives.  Reading a freed scratch is
\* undefined: stale stands for what the freed memory happens to hold.
kbdint_deref(s, stale) ==
    IF s.kbdint.ref = "freed" THEN [stale EXCEPT !.ref = "freed"] ELSE s.kbdint

---------------------------------------------------------------------------
(* Packet handlers.  A packet p is a record with p.type and the payload    *)
(* fields of its message; p.alloc names the allocation that fails while    *)
(* the packet is handled ("ok" when none does).                            *)

NoPacket == [type |-> "none"]

\* ssh_auth_response_termination with a fault: KBDINT_SENT ends the wait
ssh_auth_response_termination_kbdint(s) ==
    s.auth_state # SSH_AUTH_STATE_NONE

ssh_auth_response_termination(s) ==
    s.auth_state \notin {SSH_AUTH_STATE_NONE, SSH_AUTH_STATE_KBDINT_SENT}

\* ssh_packet_userauth_banner with a fault: a banner that cannot be read
\* is taken for a protocol error
ssh_packet_userauth_banner_strict(s, p) ==
    IF ~p.has_banner
    THEN [ssh_set_error(s, SSH_FATAL) EXCEPT !.auth_state = SSH_AUTH_STATE_ERROR]
    ELSE [s EXCEPT !.banner = p.banner]

ssh_packet_userauth_banner(s, p) ==
    IF ~p.has_banner
    THEN s
    ELSE [s EXCEPT !.banner = p.banner]

\* the bits the four strstr() tests OR into session->auth_methods
auth_methods_of(list) ==
    (IF strstr(list, str_password) THEN {SSH_AUTH_METHOD_PASSWORD} ELSE {})
    \cup (IF strstr(list, str_keyboard_interactive)
          THEN {SSH_AUTH_METHOD_INTERACTIVE} ELSE {})
    \cup (IF strstr(list, str_publickey) THEN {SSH_AUTH_METHOD_PUBLICKEY} ELSE {})
    \cup (IF strstr(list, str_hostbased) THEN {SSH_AUTH_METHOD_HOSTBASED} ELSE {})

ssh_packet_userauth_failure(s, p) ==
    IF ~p.has_auth \/ ~p.has_partial
    THEN [ssh_set_error(s, SSH_FATAL) EXCEPT !.auth_state = SSH_AUTH_STATE_ERROR]
    ELSE IF p.alloc # "ok"
    THEN ssh_set_error_oom(s)
    ELSE LET s1 == IF p.partial # 0
                   THEN [s EXCEPT !.auth_state = SSH_AUTH_STATE_PARTIAL]
                   ELSE [ssh_set_error(s, SSH_REQUEST_DENIED) EXCEPT
                            !.auth_state = SSH_AUTH_STATE_FAILED,
                            !.auth_methods = {}]
         IN  [s1 EXCEPT !.auth_methods = @ \cup auth_methods_of(p.auth)]

\* ssh_packet_userauth_success with a fault: the session state is left as
\* it was
ssh_packet_userauth_success_unauthenticated(s, p) ==
    [s EXCEPT !.auth_state = SSH_AUTH_STATE_SUCCESS,
              !.do_compress_out = IF s.delayed_compress_out THEN TRUE ELSE @,
              !.do_compress_in = IF s.delayed_compress_in THEN TRUE ELSE @]

\* ssh_packet_userauth_success with a fault: each direction is switched on
\* by the other direction's negotiation
ssh_packet_userauth_success_crossed(s, p) ==
    [s EXCEPT !.auth_state = SSH_AUTH_STATE_SUCCESS,
              !.session_state = SSH_SESSION_STATE_AUTHENTICATED,
              !.do_compress_out = IF s.delayed_compress_in THEN TRUE ELSE @,
              !.do_compress_in = IF s.delayed_compress_out THEN TRUE ELSE @]

ssh_packet_userauth_success(s, p) ==
    [s EXCEPT !.auth_state = SSH_AUTH_STATE_SUCCESS,
              !.session_state = SSH_SESSION_STATE_AUTHENTICATED,
              !.do_compress_out = IF s.delayed_compress_out THEN TRUE ELSE @,
              !.do_compress_in = IF s.delayed_compress_in THEN TRUE ELSE @]

\* the prompt loop of ssh_packet_userauth_info_request, once the arrays are
\* allocated: s.kbdint has nprompts set and prompts, echo zeroed
info_request_prompts(s, p) ==
    IF Len(p.prompts) < p.nprompts
    THEN \* a prompt string is missing: "Short INFO_REQUEST packet"
         [ssh_set_error(s, SSH_FATAL) EXCEPT !.kbdint = KbdNull]
    ELSE IF p.alloc = "prompt"
    THEN [ssh_set_error_oom(s) EXCEPT !.kbdint = KbdNull]
    ELSE [s EXCEPT !.kbdint.prompts = [i \in 1..p.nprompts |-> p.prompts[i].prompt],
                   !.kbdint.echo = [i \in 1..p.nprompts |-> p.prompts[i].echo],
                   !.auth_state = SSH_AUTH_STATE_INFO]

\* ssh_packet_userauth_info_request with a fault: the answer count is left
\* as ssh_kbdint_clean set it
ssh_packet_userauth_info_request_uncounted(s, p) ==
    IF p.nfields < 3
    THEN ssh_set_error(s, SSH_FATAL)
    ELSE info_request_prompts(
             [s EXCEPT !.kbdint = [ssh_kbdint_new EXCEPT
                                      !.name = p.name,
                                      !.instruction = p.instruction,
                                      !.nprompts = p.nprompts]], p)

ssh_packet_userauth_info_request(s, p) ==
    IF p.nfields < 3
    THEN ssh_set_error(s, SSH_FATAL)
    ELSE IF s.kbdint.ref = "NULL" /\ p.alloc = "kbdint_new"
    THEN ssh_set_error_oom(s)
    ELSE
    LET k0 == IF s.kbdint.ref = "NULL" THEN ssh_kbdint_new
              ELSE ssh_kbdint_clean(s.kbdint)
        s0 == [s EXCEPT !.kbdint = k0]
    IN  IF p.alloc = "name"
        THEN \* the scratch is freed and session->kbdint keeps pointing at it
             [ssh_set_error_oom(s0) EXCEPT !.kbdint = ssh_kbdint_free(k0)]
        ELSE IF p.alloc = "instruction"
        THEN [ssh_set_error_oom(s0) EXCEPT !.kbdint = KbdNull]
        ELSE IF p.nprompts = 0 \/ p.nprompts > KBDINT_MAX_PROMPT
        THEN [ssh_set_error(s0, SSH_FATAL) EXCEPT !.kbdint = KbdNull]
        ELSE IF p.alloc \in {"prompts", "echo"}
        THEN [ssh_set_error_oom(s0) EXCEPT !.kbdint = KbdNull]
        ELSE info_request_prompts(
                 [s0 EXCEPT !.kbdint.name = p.name,
                            !.kbdint.instruction = p.instruction,
                            !.kbdint.nprompts = p.nprompts,
                            !.kbdint.nanswers = p.nprompts], p)

\* ssh_packet_userauth_pk_ok with a fault: message 60 is told apart by its
\* payload, three strings and a count making it an INFO_REQUEST
ssh_packet_userauth_pk_ok_payload(s, p) ==
    IF p.nfields = 3
    THEN ssh_packet_userauth_info_request(s, p)
    ELSE [s EXCEPT !.auth_state = SSH_AUTH_STATE_PK_OK]

ssh_packet_userauth_pk_ok(s, p) ==
    IF s.auth_state = SSH_AUTH_STATE_KBDINT_SENT
    THEN ssh_packet_userauth_info_request(s, p)
    ELSE [s EXCEPT !.auth_state = SSH_AUTH_STATE_PK_OK]

\* the transport's dispatch by message number
ssh_packet_process(s, p) ==
    CASE p.type = SSH2_MSG_USERAUTH_BANNER  -> ssh_packet_userauth_banner(s, p)
      [] p.type = SSH2_MSG_USERAUTH_FAILURE -> ssh_packet_userauth_failure(s, p)
      [] p.type = SSH2_MSG_USERAUTH_SUCCESS -> ssh_packet_userauth_success(s, p)
      [] p.type = SSH2_MSG_USERAUTH_PK_OK   -> ssh_packet_userauth_pk_ok(s, p)

\* ssh_handle_packets_termination: the packets ps arrive one by one and
\* each is dispatched, until the termination predicate holds.  The result
\* is the session and the packets left unread.
RECURSIVE ssh_handle_packets_termination(_, _)
ssh_handle_packets_termination(s, ps) ==
    IF ps = <<>> \/ ssh_auth_response_termination(s)
    THEN [s |-> s, left |-> ps]
    ELSE ssh_handle_packets_termination(ssh_packet_process(s, Head(ps)), Tail(ps))

\* The wait of a driver.  w.ps are the packets that arrive during the wait,
\* w.terr tells that the transport fails once they are read.
ssh_userauth_get_response(s, w) ==
    LET h  == ssh_handle_packets_termination(s, w.ps)
        s1 == h.s
        n  == Len(w.ps) - Len(h.left)
        r  == [s |-> s1, used |-> n,
               pkt |-> IF n = 0 THEN NoPacket ELSE w.ps[n]]
    IN  IF w.terr /\ ~ssh_auth_response_termination(s1)
        THEN r @@ [rc |-> SSH_AUTH_ERROR, path |-> "transport"]
        ELSE IF ~ssh_auth_response_termination(s1)
        THEN r @@ [rc |-> SSH_AUTH_AGAIN, path |-> "waited"]
        ELSE r @@ [path |-> "waited",
                   rc |-> CASE s1.auth_state = SSH_AUTH_STATE_ERROR -> SSH_AUTH_ERROR
                            [] s1.auth_state = SSH_AUTH_STATE_FAILED -> SSH_AUTH_DENIED
                            [] s1.auth_state = SSH_AUTH_STATE_INFO -> SSH_AUTH_INFO
                            [] s1.auth_state = SSH_AUTH_STATE_PARTIAL -> SSH_AUTH_PARTIAL
                            [] s1.auth_state \in {SSH_AUTH_STATE_PK_OK,
                                                  SSH_AUTH_STATE_SUCCESS} -> SSH_AUTH_SUCCESS
                            [] OTHER -> SSH_AUTH_ERROR]

---------------------------------------------------------------------------
(* Method drivers.  A driver's inputs are a record in:                     *)
(*   in.username  the username argument, NULL_STR for NULL                 *)
(*   in.service   what ssh_service_request answers when the service has    *)
(*                not been accepted yet                                    *)
(*   in.fault     "ok", or the step that fails: "oom" an allocation while  *)
(*                the request is built, "sign" the signature, "send"       *)
(*                packet_send                                              *)
(*   in.w         the wait: the packets that arrive and the transport      *)
(*                failure, see ssh_userauth_get_response                   *)
(* A driver's result is the session it leaves, its return value rc, the    *)
(* packets it sent, the number of arrived packets it handled, the last of  *)
(* them, and the path it took through the function.                        *)

Ret(s, code, path) ==
    [s |-> s, rc |-> code, wire |-> <<>>, used |-> 0, pkt |-> NoPacket,
     path |-> path]

\* ssh_service_request(session, "ssh-userauth"): once accepted, it answers
\* SSH_OK without any exchange
ssh_userauth_request_service(s, in) ==
    IF s.service_accepted
    THEN [s |-> s, rc |-> SSH_OK]
    ELSE [s |-> [s EXCEPT !.service_accepted = (in.service = SSH_OK)],
          rc |-> in.service]

\* the common prefix of a USERAUTH_REQUEST
userauth_request(s, in, method) ==
    [msg |-> SSH2_MSG_USERAUTH_REQUEST,
     user |-> IF in.username # NULL_STR THEN in.username ELSE s.username,
     service |-> "ssh-connection",
     method |-> method]

\* the label pending: of a driver: wait, and clear the marker unless the
\* answer is still to come
userauth_pending(s, in, sent) ==
    LET g == ssh_userauth_get_response(s, in.w)
    IN  [s |-> IF g.rc # SSH_AUTH_AGAIN
               THEN [g.s EXCEPT !.pending_call_state = SSH_PENDING_CALL_NONE]
               ELSE g.s,
         rc |-> g.rc, wire |-> sent, used |-> g.used, pkt |-> g.pkt,
         path |-> g.path]

\* userauth_driver with a fault: a call under the driver's own marker
\* builds and sends the request again instead of resuming the wait
userauth_driver_resend(s, in, own, mark, request) ==
    IF s.pending_call_state \notin {own, SSH_PENDING_CALL_NONE}
    THEN Ret(ssh_set_error(s, SSH_FATAL), SSH_ERROR, "badcall")
    ELSE
    LET sv == ssh_userauth_request_service(s, in)
    IN  IF sv.rc = SSH_AGAIN THEN Ret(sv.s, SSH_AUTH_AGAIN, "service")
        ELSE IF sv.rc = SSH_ERROR THEN Ret(sv.s, SSH_AUTH_ERROR, "service")
        ELSE IF in.fault \in {"oom", "sign"}
        THEN Ret(ssh_set_error_oom(sv.s), SSH_AUTH_ERROR, "fail")
        ELSE
        LET s1 == [sv.s EXCEPT !.auth_state = SSH_AUTH_STATE_NONE,
                               !.pending_call_state = mark]
        IN  IF in.fault = "send"
            THEN Ret(s1, SSH_AUTH_ERROR, "send")
            ELSE userauth_pending(s1, in, <<request>>)

\* The body the five marker-keeping drivers share, from the switch on
\* pending_call_state to the return.  own is the marker that makes the
\* driver resume, mark the marker it sets, request the packet it builds.
userauth_driver(s, in, own, mark, request) ==
    IF s.pending_call_state = own
    THEN userauth_pending(s, in, <<>>)
    ELSE IF s.pending_call_state # SSH_PENDING_CALL_NONE
    THEN Ret(ssh_set_error(s, SSH_FATAL), SSH_ERROR, "badcall")
    ELSE
    LET sv == ssh_userauth_request_service(s, in)
    IN  IF sv.rc = SSH_AGAIN THEN Ret(sv.s, SSH_AUTH_AGAIN, "service")
        ELSE IF sv.rc = SSH_ERROR THEN Ret(sv.s, SSH_AUTH_ERROR, "service")
        ELSE IF in.fault \in {"oom", "sign"}
        THEN \* fail: the buffer is reset, nothing was sent
             Ret(ssh_set_error_oom(sv.s), SSH_AUTH_ERROR, "fail")
        ELSE
        LET s1 == [sv.s EXCEPT !.auth_state = SSH_AUTH_STATE_NONE,
                               !.pending_call_state = mark]
        IN  IF in.fault = "send"
            THEN Ret(s1, SSH_AUTH_ERROR, "send")
            ELSE userauth_pending(s1, in, <<request>>)

ssh_userauth_none(s, in) ==
    userauth_driver(s, in, SSH_PENDING_CALL_AUTH_NONE, SSH_PENDING_CALL_AUTH_NONE,
                    userauth_request(s, in, "none"))

ssh_userauth_password(s, in) ==
    userauth_driver(s, in, SSH_PENDING_CALL_AUTH_OFFER_PUBKEY,
                    SSH_PENDING_CALL_AUTH_OFFER_PUBKEY,
                    userauth_request(s, in, "password")
                        @@ [flag |-> 0, password |-> in.password])

\* struct ssh_key_struct: the flags and what identifies the key pair
ssh_key_is_public(key) == "PUBLIC" \in key.flags
ssh_key_is_private(key) == "PRIVATE" \in key.flags

\* ssh_pki_export_pubkey_blob: the public half, whatever the flags
ssh_pki_export_pubkey_blob(key) == [blob_of |-> key.id]

\* publickey_request with a fault: the boolean is always 0
publickey_request_offer(s, in, key, flag) ==
    userauth_request(s, in, "publickey")
        @@ [flag |-> 0, algo |-> key.type_c,
            blob |-> ssh_pki_export_pubkey_blob(key)]

\* the fields of a publickey request up to the key blob
publickey_request(s, in, key, flag) ==
    userauth_request(s, in, "publickey")
        @@ [flag |-> flag, algo |-> key.type_c,
            blob |-> ssh_pki_export_pubkey_blob(key)]

\* ssh_pki_do_sign and ssh_pki_do_sign_agent: a signature by signer over
\* the session identifier and the request built so far
ssh_pki_do_sign(s, request, key, signer) ==
    [over |-> <<s.session_id, request>>, key |-> key.id, by |-> signer]

\* ssh_userauth_try_publickey with a fault: the key is not examined
ssh_userauth_try_publickey_unchecked(s, in) ==
    userauth_driver(s, in, SSH_PENDING_CALL_AUTH_OFFER_PUBKEY,
                    SSH_PENDING_CALL_AUTH_OFFER_PUBKEY,
                    publickey_request(s, in, in.key, 0))

ssh_userauth_try_publickey(s, in) ==
    IF ~ssh_key_is_public(in.key)
    THEN Ret(ssh_set_error(s, SSH_FATAL), SSH_AUTH_ERROR, "badkey")
    ELSE userauth_driver(s, in, SSH_PENDING_CALL_AUTH_OFFER_PUBKEY,
                         SSH_PENDING_CALL_AUTH_OFFER_PUBKEY,
                         publickey_request(s, in, in.key, 0))

ssh_userauth_publickey(s, in) ==
    IF ~ssh_key_is_private(in.key)
    THEN Ret(ssh_set_error(s, SSH_FATAL), SSH_AUTH_ERROR, "badkey")
    ELSE LET req == publickey_request(s, in, in.key, 1)
         IN  userauth_driver(s, in, SSH_PENDING_CALL_AUTH_PUBKEY,
                             SSH_PENDING_CALL_AUTH_PUBKEY,
                             req @@ [signature |->
                                        ssh_pki_do_sign(s, req, in.key, "key")])

ssh_userauth_agent_publickey(s, in) ==
    LET req == publickey_request(s, in, in.key, 1)
    IN  userauth_driver(s, in, SSH_PENDING_CALL_AUTH_AGENT,
                        SSH_PENDING_CALL_AUTH_AGENT,
                        req @@ [signature |->
                                   ssh_pki_do_sign(s, req, in.key, "agent")])

---------------------------------------------------------------------------
(* Cascades.  A cascade makes several driver calls in one call; what each  *)
(* of them meets (the answer of the service, a failing step, the packets   *)
(* that arrive while it waits) is drawn for each in turn, so a cascade is  *)
(* an operator to the set of its possible results.  A result carries log,  *)
(* the driver calls made in order: op "offer" or "sign", the key, the rc.  *)

\* what one driver call of a cascade may meet in session s: at most one
\* packet arrives during its wait
SubInputs(E, s, username, faults) ==
    { [username |-> username, service |-> sv, fault |-> f,
       w |-> [ps |-> ps, terr |-> b]] :
        sv \in IF s.service_accepted THEN {SSH_OK} ELSE E.services,
        f \in faults \cap E.faults,
        ps \in {<<>>} \cup { <<p>> : p \in E.packets },
        b \in E.terr }

\* the result of a cascade that returns code after the calls of acc
CascadeRet(s, code, acc) ==
    [s |-> s, rc |-> code, wire |-> acc.wire, log |-> acc.log, pkt |-> acc.pkt]

\* acc after the driver call op on key returned r
CascadeStep(acc, op, key, r) ==
    [wire |-> acc.wire \o r.wire,
     log |-> Append(acc.log, [op |-> op, key |-> key.id, rc |-> r.rc]),
     pkt |-> IF r.pkt = NoPacket THEN acc.pkt ELSE r.pkt]

\* a cascade that has made no driver call yet
CascadeStart == [wire |-> <<>>, log |-> <<>>, pkt |-> NoPacket]

\* The body of the loop of ssh_userauth_agent for identity pubkey, after
\* the calls of acc: agent_identity makes the offer, agent_offered goes on
\* from its result o, agent_signed from the result g of the signed request.
\* A result with rc NO_RC goes on to the next identity.
agent_signed(g, j, pubkey, acc) ==
    IF g.used # Len(j.w.ps) THEN {}
    ELSE IF g.rc = SSH_AUTH_ERROR
    THEN { CascadeRet(g.s, g.rc, CascadeStep(acc, "sign", pubkey, g)) }
    ELSE IF g.rc # SSH_AUTH_SUCCESS
    THEN { CascadeRet(g.s, NO_RC, CascadeStep(acc, "sign", pubkey, g)) }
    ELSE { CascadeRet(g.s, SSH_AUTH_SUCCESS, CascadeStep(acc, "sign", pubkey, g)) }

agent_sign(s, E, username, pubkey, acc) ==
    UNION { agent_signed(ssh_userauth_agent_publickey(s, j @@ [key |-> pubkey]),
                         j, pubkey, acc)
            : j \in SubInputs(E, s, username, {"ok", "oom", "sign", "send"}) }

agent_offered(o, i, E, username, pubkey, acc) ==
    IF o.used # Len(i.w.ps) THEN {}
    ELSE IF o.rc = SSH_AUTH_ERROR
    THEN { CascadeRet(o.s, o.rc, CascadeStep(acc, "offer", pubkey, o)) }
    ELSE IF o.rc # SSH_AUTH_SUCCESS
    THEN { CascadeRet(o.s, NO_RC, CascadeStep(acc, "offer", pubkey, o)) }
    ELSE agent_sign(o.s, E, username, pubkey, CascadeStep(acc, "offer", pubkey, o))

agent_identity(s, E, username, pubkey, acc) ==
    UNION { agent_offered(ssh_userauth_try_publickey(s, i @@ [key |-> pubkey]),
                          i, E, username, pubkey, acc)
            : i \in SubInputs(E, s, username, {"ok", "oom", "send"}) }

\* the loop of ssh_userauth_agent: loop[k] is where the cascade may be
\* after the first k identities; the loop left without a return gives
\* SSH_AUTH_ERROR
agent_identities(s, E, username, idents) ==
    LET loop[k \in 0..Len(idents)] ==
            IF k = 0 THEN { CascadeRet(s, NO_RC, CascadeStart) }
            ELSE UNION { IF x.rc # NO_RC THEN { x }
                         ELSE agent_identity(x.s, E, username, idents[k], x)
                         : x \in loop[k - 1] }
    IN  { IF x.rc = NO_RC THEN [x EXCEPT !.rc = SSH_AUTH_ERROR] ELSE x
          : x \in loop[Len(idents)] }

\* a cascade that walks the identities last to first
ssh_userauth_agent_backwards(s, E, username, running, idents) ==
    IF ~running
    THEN { CascadeRet(s, SSH_AUTH_DENIED, CascadeStart) }
    ELSE agent_identities(s, E, username,
                          [k \in 1..Len(idents) |-> idents[Len(idents) + 1 - k]])

\* running: agent_is_running(session); idents: the keys the agent
\* enumerates, first to last
ssh_userauth_agent(s, E, username, running, idents) ==
    IF ~running
    THEN { CascadeRet(s, SSH_AUTH_DENIED, CascadeStart) }
    ELSE agent_identities(s, E, username, idents)

\* acc after a key-file operation op on identity file returned code
FileStep(acc, op, file, code) ==
    CascadeStep(acc, op, file, [rc |-> code, wire |-> <<>>, pkt |-> NoPacket])

\* the keys ssh_pki_import_pubkey_file and ssh_pki_import_privkey_file
\* make of identity file
pubkey_of(file)  == [id |-> file.id, type_c |-> "ssh-rsa", flags |-> {"PUBLIC"}]
privkey_of(file) == [id |-> file.id, type_c |-> "ssh-rsa", flags |-> {"PUBLIC", "PRIVATE"}]

\* The body of the loop of ssh_userauth_publickey_auto for identity file,
\* after the calls of acc: auto_identity reads the key files and
\* auto_imported goes on from what they gave; auto_offer makes the offer
\* (have: privkey is already loaded) and auto_offered goes on from its
\* result o; auto_sign makes the signed request and auto_signed goes on
\* from its result g.  A result with rc NO_RC goes on to the next file.
auto_signed(g, j, file, acc) ==
    IF g.used # Len(j.w.ps) THEN {}
    ELSE IF g.rc = SSH_AUTH_ERROR \/ g.rc = SSH_AUTH_SUCCESS
    THEN { CascadeRet(g.s, g.rc, CascadeStep(acc, "ssh_userauth_publickey", file, g)) }
    ELSE { CascadeRet(g.s, NO_RC, CascadeStep(acc, "ssh_userauth_publickey", file, g)) }

auto_sign(s, E, username, file, acc) ==
    UNION { auto_signed(ssh_userauth_publickey(s, j @@ [key |-> privkey_of(file)]),
                        j, file, acc)
            : j \in SubInputs(E, s, username, {"ok", "oom", "sign", "send"}) }

\* the public key was accepted: the private key is imported unless it is
\* loaded already (have), then the signed request is made
auto_accepted(s, E, username, file, acc, have, priv) ==
    IF ~have /\ priv = SSH_ERROR
    THEN { CascadeRet(ssh_set_error(s, SSH_FATAL), NO_RC,
                      FileStep(acc, "ssh_pki_import_privkey_file", file, priv)) }
    ELSE IF ~have /\ priv = SSH_EOF
    THEN { CascadeRet(s, NO_RC, FileStep(acc, "ssh_pki_import_privkey_file", file, priv)) }
    ELSE auto_sign(s, E, username, file,
                   IF have THEN acc
                   ELSE FileStep(acc, "ssh_pki_import_privkey_file", file, priv))

auto_offered(o, i, E, username, file, acc, have) ==
    IF o.used # Len(i.w.ps) THEN {}
    ELSE IF o.rc = SSH_AUTH_ERROR
    THEN { CascadeRet(o.s, o.rc, CascadeStep(acc, "ssh_userauth_try_publickey", file, o)) }
    ELSE IF o.rc # SSH_AUTH_SUCCESS
    THEN { CascadeRet(o.s, NO_RC, CascadeStep(acc, "ssh_userauth_try_publickey", file, o)) }
    ELSE UNION { auto_accepted(o.s, E, username, file,
                               CascadeStep(acc, "ssh_userauth_try_publickey", file, o),
                               have, priv)
                 : priv \in IF have THEN {SSH_OK} ELSE E.privfiles }

auto_offer(s, E, username, file, acc, have) ==
    UNION { auto_offered(ssh_userauth_try_publickey(s, i @@ [key |-> pubkey_of(file)]),
                         i, E, username, file, acc, have)
            : i \in SubInputs(E, s, username, {"ok", "oom", "send"}) }

\* what the key files of one identity may give: f[1] the import of the
\* public key, f[2] the import of the private key and f[3] the export of
\* its public half, which happen only where there is no public key file
AutoFiles(E) ==
    { f \in E.pubfiles \X E.privfiles \X E.exports :
        /\ f[1] # SSH_EOF => (f[2] = SSH_OK /\ f[3] = SSH_OK)
        /\ f[2] # SSH_OK => f[3] = SSH_OK }

\* acc after the key-file operations of f that come before the offer
auto_files_read(acc, file, f) ==
    IF f[1] # SSH_EOF
    THEN FileStep(acc, "ssh_pki_import_pubkey_file", file, f[1])
    ELSE IF f[2] # SSH_OK
    THEN FileStep(FileStep(acc, "ssh_pki_import_pubkey_file", file, f[1]),
                  "ssh_pki_import_privkey_file", file, f[2])
    ELSE FileStep(FileStep(FileStep(acc, "ssh_pki_import_pubkey_file", file, f[1]),
                           "ssh_pki_import_privkey_file", file, f[2]),
                  "ssh_pki_export_privkey_to_pubkey", file, f[3])

auto_imported(s, E, username, file, acc, f) ==
    IF f[1] = SSH_ERROR
    THEN { CascadeRet(ssh_set_error(s, SSH_FATAL), SSH_AUTH_ERROR, acc) }
    ELSE IF f[1] = SSH_EOF /\ f[2] = SSH_ERROR
    THEN { CascadeRet(ssh_set_error(s, SSH_FATAL), NO_RC, acc) }
    ELSE IF f[1] = SSH_EOF /\ f[2] = SSH_EOF
    THEN { CascadeRet(s, NO_RC, acc) }
    ELSE IF f[1] = SSH_EOF /\ f[3] = SSH_ERROR
    THEN { CascadeRet(s, SSH_AUTH_ERROR, acc) }
    ELSE auto_offer(s, E, username, file, acc, f[1] = SSH_EOF)

auto_identity(s, E, username, file, acc) ==
    UNION { auto_imported(s, E, username, file, auto_files_read(acc, file, f), f)
            : f \in AutoFiles(E) }

\* the loop of ssh_userauth_publickey_auto from r, what the agent left:
\* loop[k] is where the cascade may be after the first k identity files;
\* the loop left without a return gives SSH_AUTH_DENIED
auto_identities(r, E, username, files) ==
    LET loop[k \in 0..Len(files)] ==
            IF k = 0 THEN { [r EXCEPT !.rc = NO_RC] }
            ELSE UNION { IF x.rc # NO_RC THEN { x }
                         ELSE auto_identity(x.s, E, username, files[k], x)
                         : x \in loop[k - 1] }
    IN  { IF x.rc = NO_RC THEN [x EXCEPT !.rc = SSH_AUTH_DENIED] ELSE x
          : x \in loop[Len(files)] }

\* running, idents: the agent, as in ssh_userauth_agent; files: the
\* identity list of the session, first to last
ssh_userauth_publickey_auto(s, E, username, running, idents, files) ==
    UNION {
      IF r.rc = SSH_AUTH_ERROR \/ r.rc = SSH_AUTH_SUCCESS
      THEN { r }
      ELSE auto_identities(r, E, username, files)
      : r \in ssh_userauth_agent(s, E, username, running, idents) }

---------------------------------------------------------------------------
(* Keyboard-interactive.                                                   *)

ssh_userauth_kbdint_init(s, in) ==
    LET sv == ssh_userauth_request_service(s, in)
    IN  IF sv.rc # SSH_OK THEN Ret(sv.s, SSH_AUTH_ERROR, "service")
        ELSE IF in.fault = "oom"
        THEN Ret(ssh_set_error_oom(sv.s), SSH_AUTH_ERROR, "fail")
        ELSE
        LET s1 == [sv.s EXCEPT !.auth_state = SSH_AUTH_STATE_KBDINT_SENT]
            g  == ssh_userauth_get_response(s1, in.w)
        IN  IF in.fault = "send"
            THEN Ret(s1, SSH_AUTH_ERROR, "send")
            ELSE [s |-> g.s, rc |-> g.rc, used |-> g.used, pkt |-> g.pkt,
                  path |-> g.path,
                  wire |-> <<userauth_request(s, in, "keyboard-interactive")
                              @@ [lang |-> "", submethods |-> in.submethods]>>]

\* in.stale is what the scratch reads as when session->kbdint was freed
ssh_userauth_kbdint_send(s, in) ==
    LET kbd == kbdint_deref(s, in.stale)
        response ==
            [msg |-> SSH2_MSG_USERAUTH_INFO_RESPONSE,
             n |-> kbd.nprompts,
             answers |-> [i \in 1..kbd.nprompts |->
                            IF kbd.answers # <<>> /\ kbd.answers[i] # NULL_STR
                            THEN kbd.answers[i] ELSE ""]]
    IN  IF in.fault = "oom"
        THEN Ret(ssh_set_error_oom(s), SSH_AUTH_ERROR, "fail")
        ELSE
        LET s1 == [s EXCEPT !.auth_state = SSH_AUTH_STATE_KBDINT_SENT,
                            !.kbdint = KbdNull]
            g  == ssh_userauth_get_response(s1, in.w)
        IN  IF in.fault = "send"
            THEN Ret(s1, SSH_AUTH_ERROR, "send")
            ELSE [s |-> g.s, rc |-> g.rc, used |-> g.used, pkt |-> g.pkt,
                  path |-> g.path, wire |-> <<response>>]

ssh_userauth_kbdint(s, in) ==
    IF s.kbdint.ref = "NULL"
    THEN ssh_userauth_kbdint_init(s, in)
    ELSE ssh_userauth_kbdint_send(s, in)

ssh_userauth_list(s) == s.auth_methods

\* the getters answer in rc; -1 is SSH_ERROR
ssh_userauth_kbdint_getnprompts(s, stale) ==
    IF s.kbdint.ref = "NULL"
    THEN [s |-> ssh_set_error_invalid(s), rc |-> SSH_ERROR]
    ELSE [s |-> s, rc |-> kbdint_deref(s, stale).nprompts]

ssh_userauth_kbdint_getname(s, stale) ==
    IF s.kbdint.ref = "NULL"
    THEN [s |-> ssh_set_error_invalid(s), rc |-> NULL_STR]
    ELSE [s |-> s, rc |-> kbdint_deref(s, stale).name]

ssh_userauth_kbdint_getinstruction(s, stale) ==
    IF s.kbdint.ref = "NULL"
    THEN [s |-> ssh_set_error_invalid(s), rc |-> NULL_STR]
    ELSE [s |-> s, rc |-> kbdint_deref(s, stale).instruction]

\* i counts from 0 as in C.  junk is what the read one past the arrays
\* gives: prompts[nprompts] and echo[nprompts] are outside the allocation.
ssh_userauth_kbdint_getprompt(s, i, stale, junk) ==
    LET kbd == kbdint_deref(s, stale)
    IN  IF s.kbdint.ref = "NULL"
        THEN [s |-> ssh_set_error_invalid(s), rc |-> NULL_STR, echo |-> NULL_STR]
        ELSE IF i > kbd.nprompts
        THEN [s |-> ssh_set_error_invalid(s), rc |-> NULL_STR, echo |-> NULL_STR]
        ELSE IF i + 1 > Len(kbd.prompts)
        THEN [s |-> s, rc |-> junk.prompt, echo |-> junk.echo]
        ELSE [s |-> s, rc |-> kbd.prompts[i + 1], echo |-> kbd.echo[i + 1]]

\* alloc: "ok", or the allocation that fails: "answers" the array, "strdup"
\* the copy.  A write to answers[nprompts] lands outside the array.
ssh_userauth_kbdint_setanswer(s, i, answer, alloc, stale) ==
    LET kbd == kbdint_deref(s, stale)
    IN  IF answer = NULL_STR \/ s.kbdint.ref = "NULL" \/ i > kbd.nprompts
        THEN [s |-> ssh_set_error_invalid(s), rc |-> -1]
        ELSE IF kbd.answers = <<>> /\ alloc = "answers"
        THEN [s |-> ssh_set_error_oom(s), rc |-> -1]
        ELSE
        LET arr == IF kbd.answers = <<>>
                   THEN [j \in 1..kbd.nprompts |-> NULL_STR]
                   ELSE kbd.answers
            k1  == [kbd EXCEPT !.answers = arr]
        IN  IF i + 1 > Len(arr)
            THEN IF alloc = "strdup"
                 THEN [s |-> [ssh_set_error_oom(s) EXCEPT !.kbdint = k1], rc |-> -1]
                 ELSE [s |-> [s EXCEPT !.kbdint = k1], rc |-> 0]
            ELSE IF alloc = "strdup"
            THEN [s |-> [ssh_set_error_oom(s) EXCEPT
                            !.kbdint = [k1 EXCEPT !.answers[i + 1] = NULL_STR]],
                  rc |-> -1]
            ELSE [s |-> [s EXCEPT !.kbdint = [k1 EXCEPT !.answers[i + 1] = answer]],
                  rc |-> 0]

---------------------------------------------------------------------------
(* Release of answer strings.  Each operator gives the answer strings the  *)
(* code deallocates, as records: slot the index from 1, str the string,    *)
(* zeroed whether its bytes were overwritten before free().                *)

\* the answers loop of ssh_kbdint_free and of ssh_kbdint_clean with a
\* fault: the strings are freed without BURN_STRING
kbdint_answers_released_unburnt(kbd) ==
    IF kbd.answers = <<>> THEN {}
    ELSE { [slot |-> i, str |-> kbd.answers[i], zeroed |-> FALSE] :
             i \in { j \in 1..kbd.nanswers : kbd.answers[j] # NULL_STR } }

\* the answers loop of ssh_kbdint_free and of ssh_kbdint_clean: for
\* i < nanswers, BURN_STRING(answers[i]) then SAFE_FREE(answers[i])
kbdint_answers_released(kbd) ==
    IF kbd.answers = <<>> THEN {}
    ELSE { [slot |-> i, str |-> kbd.answers[i], zeroed |-> TRUE] :
             i \in { j \in 1..kbd.nanswers : kbd.answers[j] # NULL_STR } }

\* ssh_userauth_kbdint_setanswer with a fault: the old answer is freed
\* without BURN_STRING
setanswer_released_unburnt(kbd, i) ==
    IF kbd.answers = <<>> \/ i + 1 > Len(kbd.answers) THEN {}
    ELSE IF kbd.answers[i + 1] = NULL_STR THEN {}
    ELSE { [slot |-> i + 1, str |-> kbd.answers[i + 1], zeroed |-> FALSE] }

\* ssh_userauth_kbdint_setanswer, once the array is there: an answer
\* already in slot i is scrubbed and freed before the new copy is stored
setanswer_released(kbd, i) ==
    IF kbd.answers = <<>> \/ i + 1 > Len(kbd.answers) THEN {}
    ELSE IF kbd.answers[i + 1] = NULL_STR THEN {}
    ELSE { [slot |-> i + 1, str |-> kbd.answers[i + 1], zeroed |-> TRUE] }

\* ssh_userauth_kbdint_send: the ssh_string copy of each answer is burned
\* and freed once it is in the buffer
kbdint_send_copies(kbd) ==
    { [slot |-> i,
       str |-> IF kbd.answers # <<>> /\ kbd.answers[i] # NULL_STR
               THEN kbd.answers[i] ELSE "",
       zeroed |-> TRUE] : i \in 1..kbd.nprompts }

\* ssh_userauth_password: the ssh_string copy of the password is put in the
\* buffer and freed by ssh_string_free, with no burn in between
password_copy_released(in) ==
    { [slot |-> 1, str |-> in.password, zeroed |-> FALSE] }

---------------------------------------------------------------------------
(* The environment.  An environment E fixes the sets the inputs are drawn  *)
(* from: the packets the server sends, the arguments of the calls, the     *)
(* failures of allocation and transport, the compression negotiated by     *)
(* the key exchange.                                                       *)

\* method lists of a USERAUTH_FAILURE: up to MaxEntries names of pool,
\* in the order of pool, separated by commas
RECURSIVE name_list(_, _, _)
name_list(pool, chosen, i) ==
    IF i > Len(pool) THEN <<>>
    ELSE IF i \notin chosen THEN name_list(pool, chosen, i + 1)
    ELSE LET rest == name_list(pool, chosen, i + 1)
         IN  IF rest = <<>> THEN pool[i] ELSE pool[i] \o <<",">> \o rest

MethodLists(pool) ==
    { name_list(pool, chosen, 1) :
        chosen \in {c \in SUBSET (1..Len(pool)) : Cardinality(c) <= MaxEntries} }

FailurePackets(lists, allocs) ==
    { [type |-> SSH2_MSG_USERAUTH_FAILURE, has_auth |-> TRUE, auth |-> l,
       has_partial |-> TRUE, partial |-> b, alloc |-> a] :
         l \in lists, b \in {0, 1}, a \in allocs \cap {"ok", "oom"} }
    \cup
    \* cut short: no method list, or no partial flag
    { [type |-> SSH2_MSG_USERAUTH_FAILURE, has_auth |-> h, auth |-> <<>>,
       has_partial |-> FALSE, partial |-> 0, alloc |-> "ok"] : h \in BOOLEAN }

SuccessPackets == { [type |-> SSH2_MSG_USERAUTH_SUCCESS] }

BannerPackets(texts) ==
    { [type |-> SSH2_MSG_USERAUTH_BANNER, has_banner |-> TRUE, banner |-> b] :
        b \in texts }
    \cup { [type |-> SSH2_MSG_USERAUTH_BANNER, has_banner |-> FALSE,
            banner |-> NULL_STR] }

\* the prompts a server asks, each with its echo flag
PromptPool ==
    { [prompt |-> "Password:", echo |-> 0], [prompt |-> "OTP:", echo |-> 1] }

PromptSeqs(n) == [1..n -> PromptPool]

\* message 60 with nfields of the strings name, instruction, language,
\* then the announced nprompts and the prompts that are really there
InfoRequest(nfields, nprompts, prompts, alloc) ==
    [type |-> SSH2_MSG_USERAUTH_PK_OK, nfields |-> nfields,
     name |-> "PAM", instruction |-> "Please authenticate",
     nprompts |-> nprompts, prompts |-> prompts, alloc |-> alloc]

InfoRequests(counts, allocs) ==
    UNION { { InfoRequest(3, n, ps, a) :
                a \in allocs \ {"oom"},
                ps \in UNION { PromptSeqs(k) :
                                 k \in 0..(IF n > KBDINT_MAX_PROMPT THEN 0 ELSE n) } } :
            n \in counts }
    \cup { InfoRequest(f, 0, <<>>, "ok") : f \in 0..2 }

\* what a freed scratch may read as
StaleScratches ==
    { KbdNull,
      [KbdNull EXCEPT !.name = "PAM", !.instruction = "Please authenticate",
                      !.nprompts = 1, !.nanswers = 1,
                      !.prompts = <<"Password:">>, !.echo = <<0>>] }

Junk == { [prompt |-> NULL_STR, echo |-> 0], [prompt |-> "junk", echo |-> 1] }

Keys ==
    { [id |-> 1, type_c |-> "ssh-rsa", flags |-> f] :
        f \in { {"PUBLIC"}, {"PRIVATE"}, {"PUBLIC", "PRIVATE"} } }

\* the identities of an agent: public keys, each once
AgentKeys == { [id |-> n, type_c |-> "ssh-rsa", flags |-> {"PUBLIC"}] : n \in 1..MaxIdentities }

RECURSIVE Identities(_, _)
Identities(keys, n) ==
    IF n = 0 THEN { <<>> }
    ELSE { <<>> } \cup { <<k>> \o rest : k \in keys, rest \in Identities(keys, n - 1) }

AgentIdentities ==
    { ids \in Identities(AgentKeys, MaxIdentities) :
        \A a, b \in 1..Len(ids) : a # b => ids[a].id # ids[b].id }

\* the identity lists of a session: files 1..n in order
IdentityFiles == { [k \in 1..n |-> [id |-> k]] : n \in 0..MaxIdentities }

\* what the key exchange negotiated for one direction: no compression,
\* zlib (on from the start), or zlib@openssh.com (delayed)
Compression ==
    { [delayed |-> FALSE, do |-> FALSE], [delayed |-> FALSE, do |-> TRUE],
      [delayed |-> TRUE, do |-> FALSE] }

InitSession(in, out) ==
    [ auth_state |-> SSH_AUTH_STATE_NONE,
      pending_call_state |-> SSH_PENDING_CALL_NONE,
      auth_methods |-> {},
      session_state |-> SSH_SESSION_STATE_AUTHENTICATING,
      delayed_compress_in |-> in.delayed, do_compress_in |-> in.do,
      delayed_compress_out |-> out.delayed, do_compress_out |-> out.do,
      kbdint |-> KbdNull,
      banner |-> NULL_STR,
      error_code |-> SSH_NO_ERROR,
      service_accepted |-> FALSE,
      username |-> "alice",
      session_id |-> "H" ]

InitOf(E) ==
    /\ \E c \in E.crypto : session = InitSession(c.in, c.out)
    /\ inq = <<>>
    /\ call = [op |-> "init", path |-> "-"]
    /\ rc = NO_RC
    /\ wire = <<>>
    /\ pkt = NoPacket
    /\ waiting = "-"

---------------------------------------------------------------------------
(* Actions.                                                                *)

\* the payloads a sequence of message numbers may carry
RECURSIVE Payloads(_, _)
Payloads(E, types) ==
    IF types = <<>> THEN { <<>> }
    ELSE { <<p>> \o rest :
             p \in {q \in E.packets : q.type = Head(types)},
             rest \in Payloads(E, Tail(types)) }

\* the waits a driver may meet: a prefix of the packets in flight arrives
Waits(E) ==
    { [ps |-> ps, terr |-> b] :
        ps \in UNION { Payloads(E, SubSeq(inq, 1, k)) : k \in 0..Len(inq) },
        b \in E.terr }

\* the inputs every driver has
Inputs(E, faults) ==
    { [username |-> u, service |-> sv, fault |-> f, w |-> w] :
        u \in E.usernames,
        sv \in IF session.service_accepted THEN {SSH_OK} ELSE E.services,
        f \in faults \cap E.faults,
        w \in Waits(E) }

\* the step of a call that returned r: r handled every packet that arrived
Finish(op, in, r) ==
    /\ r.used = Len(in.w.ps)
    /\ session' = r.s
    /\ inq' = SubSeq(inq, r.used + 1, Len(inq))
    /\ call' = [op |-> op, path |-> r.path]
    /\ rc' = r.rc
    /\ wire' = r.wire
    /\ pkt' = r.pkt
    /\ waiting' = IF r.path \notin {"waited", "transport"} THEN waiting
                  ELSE IF r.rc = SSH_AUTH_AGAIN THEN op
                  ELSE "-"

\* the server sends a packet
ServerSend(E) ==
    \E t \in E.types :
        /\ Len(inq) < MaxInflight
        /\ inq' = Append(inq, t)
        /\ call' = [op |-> "server_send", path |-> "-"]
        /\ rc' = NO_RC
        /\ wire' = <<>>
        /\ pkt' = NoPacket
        /\ UNCHANGED <<session, waiting>>

\* the transport reads a packet while no driver waits
PacketProcess(E) ==
    /\ inq # <<>>
    /\ \E p \in E.packets :
        /\ p.type = Head(inq)
        /\ session' = ssh_packet_process(session, p)
        /\ pkt' = p
    /\ inq' = Tail(inq)
    /\ call' = [op |-> "ssh_packet_process", path |-> "-"]
    /\ rc' = NO_RC
    /\ wire' = <<>>
    /\ UNCHANGED waiting

UserauthNone(E) ==
    \E in \in Inputs(E, {"ok", "oom", "send"}) :
        Finish("ssh_userauth_none", in, ssh_userauth_none(session, in))

UserauthPassword(E) ==
    \E i \in Inputs(E, {"ok", "oom", "send"}) :
        LET in == i @@ [password |-> "hunter2"]
        IN  Finish("ssh_userauth_password", in, ssh_userauth_password(session, in))

UserauthTryPublickey(E) ==
    \E i \in Inputs(E, {"ok", "oom", "send"}), key \in E.keys :
        LET in == i @@ [key |-> key]
        IN  Finish("ssh_userauth_try_publickey", in,
                   ssh_userauth_try_publickey(session, in))

UserauthPublickey(E) ==
    \E i \in Inputs(E, {"ok", "oom", "sign", "send"}), key \in E.keys :
        LET in == i @@ [key |-> key]
        IN  Finish("ssh_userauth_publickey", in,
                   ssh_userauth_publickey(session, in))

\* ssh_userauth_agent_pubkey hands a public key to the agent sign driver
UserauthAgentPubkey(E) ==
    \E i \in Inputs(E, {"ok", "oom", "sign", "send"}),
       key \in {k \in E.keys : k.flags = {"PUBLIC"}} :
        LET in == i @@ [key |-> key]
        IN  Finish("ssh_userauth_agent_publickey", in,
                   ssh_userauth_agent_publickey(session, in))

\* a cascade call, made when no packet is in flight: what arrives during
\* the call is drawn with each of its driver calls.  Cascades are not
\* called twice in a row: something happens on the connection between two.
Cascade(c, r) ==
    /\ inq = <<>>
    /\ "log" \notin DOMAIN call
    /\ session' = r.s
    /\ call' = c @@ [path |-> "-", log |-> r.log]
    /\ rc' = r.rc
    /\ wire' = r.wire
    /\ pkt' = r.pkt
    /\ UNCHANGED <<inq, waiting>>

\* the ids of a list of identities, in order
IdsOf(idents) == [k \in 1..Len(idents) |-> idents[k].id]

UserauthAgent(E) ==
    \E running \in BOOLEAN, idents \in AgentIdentities :
        /\ "log" \notin DOMAIN call
        /\ \E r \in ssh_userauth_agent(session, E, NULL_STR, running, idents) :
               Cascade([op |-> "ssh_userauth_agent", idents |-> IdsOf(idents)], r)

\* call.agent records the agent the cascade met
UserauthPublickeyAuto(E) ==
    \E agent \in E.agents, files \in IdentityFiles :
        /\ "log" \notin DOMAIN call
        /\ \E r \in ssh_userauth_publickey_auto(session, E, NULL_STR, agent.running,
                                             agent.idents, files) :
               Cascade([op |-> "ssh_userauth_publickey_auto", idents |-> IdsOf(files),
                        agent |-> [running |-> agent.running,
                                   idents |-> IdsOf(agent.idents)]], r)

UserauthKbdint(E) ==
    \E i \in Inputs(E, {"ok", "oom", "send"}), stale \in StaleScratches :
        /\ session.kbdint.ref # "freed" => stale = KbdNull
        /\ LET in == i @@ [submethods |-> "", stale |-> stale]
           IN  Finish("ssh_userauth_kbdint", in, ssh_userauth_kbdint(session, in))

\* a call that neither waits nor sends
Local(op, s, code) ==
    /\ session' = s
    /\ call' = op
    /\ rc' = code
    /\ wire' = <<>>
    /\ pkt' = NoPacket
    /\ UNCHANGED <<inq, waiting>>

UserauthList ==
    Local([op |-> "ssh_userauth_list", path |-> "-"], session, ssh_userauth_list(session))

KbdintGetnprompts ==
    \E stale \in StaleScratches :
        /\ session.kbdint.ref # "freed" => stale = KbdNull
        /\ LET r == ssh_userauth_kbdint_getnprompts(session, stale)
           IN  Local([op |-> "ssh_userauth_kbdint_getnprompts", path |-> "-"], r.s, r.rc)

KbdintGetname ==
    \E stale \in StaleScratches :
        /\ session.kbdint.ref # "freed" => stale = KbdNull
        /\ LET r == ssh_userauth_kbdint_getname(session, stale)
           IN  Local([op |-> "ssh_userauth_kbdint_getname", path |-> "-"], r.s, r.rc)

KbdintGetinstruction ==
    \E stale \in StaleScratches :
        /\ session.kbdint.ref # "freed" => stale = KbdNull
        /\ LET r == ssh_userauth_kbdint_getinstruction(session, stale)
           IN  Local([op |-> "ssh_userauth_kbdint_getinstruction", path |-> "-"], r.s, r.rc)

KbdintGetprompt ==
    \E i \in 0..(KBDINT_MAX_PROMPT + 1), stale \in StaleScratches, junk \in Junk :
        /\ session.kbdint.ref # "freed" => stale = KbdNull
        /\ LET r == ssh_userauth_kbdint_getprompt(session, i, stale, junk)
           IN  Local([op |-> "ssh_userauth_kbdint_getprompt", path |-> "-", i |-> i,
                      echo |-> r.echo], r.s, r.rc)

KbdintSetanswer(E) ==
    \E i \in 0..(KBDINT_MAX_PROMPT + 1), answer \in E.answers,
       alloc \in {"ok", "answers", "strdup"} \cap (E.allocs \cup {"ok"}),
       stale \in StaleScratches :
        /\ session.kbdint.ref # "freed" => stale = KbdNull
        /\ LET r == ssh_userauth_kbdint_setanswer(session, i, answer, alloc, stale)
           IN  Local([op |-> "ssh_userauth_kbdint_setanswer", path |-> "-", i |-> i,
                      answer |-> answer], r.s, r.rc)

---------------------------------------------------------------------------
(* Specifications.  Each one runs the operations it names against an       *)
(* environment; the environments differ in the payloads and arguments they *)
(* draw, so that each part of the session is explored in full while the    *)
(* parts it does not interact with are held to one plain value.            *)

\* the plain environment: one value of every payload and argument
Plain ==
    [ types     |-> {SSH2_MSG_USERAUTH_FAILURE, SSH2_MSG_USERAUTH_SUCCESS,
                     SSH2_MSG_USERAUTH_PK_OK},
      packets   |-> FailurePackets({<<>>}, {"ok"}) \cup SuccessPackets
                    \cup { InfoRequest(3, 1, <<[prompt |-> "Password:", echo |-> 0]>>,
                                       "ok") },
      usernames |-> {NULL_STR},
      services  |-> {SSH_OK, SSH_AGAIN, SSH_ERROR},
      faults    |-> {"ok", "oom", "sign", "send"},
      terr      |-> BOOLEAN,
      keys      |-> Keys,
      answers   |-> {"p"},
      allocs    |-> {"ok"},
      crypto    |-> { [in |-> [delayed |-> TRUE, do |-> FALSE],
                       out |-> [delayed |-> FALSE, do |-> FALSE]] } ]

\* Spec: the method drivers and the packets that answer them
Env == Plain

Init == InitOf(Env)

Next ==
    \/ ServerSend(Env)
    \/ PacketProcess(Env)
    \/ UserauthNone(Env)
    \/ UserauthPassword(Env)
    \/ UserauthTryPublickey(Env)
    \/ UserauthPublickey(Env)
    \/ UserauthAgentPubkey(Env)
    \/ UserauthKbdint(Env)

Spec == Init /\ [][Next]_vars

\* SpecFailure: the none and password drivers against a server whose
\* USERAUTH_FAILURE carries any method list over NamePool
NamePool ==
    << str_publickey, str_password, str_hostbased, str_keyboard_interactive,
       str_gssapi, str_xpassword >>

EnvFailure ==
    [Plain EXCEPT !.types = {SSH2_MSG_USERAUTH_FAILURE},
                  !.packets = FailurePackets(MethodLists(NamePool), {"ok", "oom"}),
                  !.services = {SSH_OK},
                  !.faults = {"ok"},
                  !.terr = {FALSE}]

InitFailure == InitOf(EnvFailure)

NextFailure ==
    \/ ServerSend(EnvFailure)
    \/ PacketProcess(EnvFailure)
    \/ UserauthNone(EnvFailure)
    \/ UserauthPassword(EnvFailure)
    \/ UserauthList

SpecFailure == InitFailure /\ [][NextFailure]_vars

\* SpecCompression: the none and password drivers after a key exchange that
\* negotiated any compression for either direction
EnvCompression ==
    [Plain EXCEPT !.types = {SSH2_MSG_USERAUTH_FAILURE, SSH2_MSG_USERAUTH_SUCCESS},
                  !.services = {SSH_OK},
                  !.crypto = [in : Compression, out : Compression]]

InitCompression == InitOf(EnvCompression)

NextCompression ==
    \/ ServerSend(EnvCompression)
    \/ PacketProcess(EnvCompression)
    \/ UserauthNone(EnvCompression)
    \/ UserauthPassword(EnvCompression)

SpecCompression == InitCompression /\ [][NextCompression]_vars

\* SpecKbdint: the keyboard-interactive exchange against a server that
\* sends any USERAUTH_INFO_REQUEST, with any allocation of the handler
\* failing
InfoRequestAllocs ==
    {"ok", "kbdint_new", "name", "instruction", "prompts", "echo", "prompt"}

EnvKbdint ==
    [Plain EXCEPT !.types = {SSH2_MSG_USERAUTH_PK_OK, SSH2_MSG_USERAUTH_FAILURE},
                  !.packets = InfoRequests(0..(KBDINT_MAX_PROMPT + 1), InfoRequestAllocs)
                              \cup FailurePackets({<<>>}, {"ok"}),
                  !.services = {SSH_OK},
                  !.faults = {"ok"},
                  !.terr = {FALSE}]

InitKbdint == InitOf(EnvKbdint)

NextKbdint ==
    \/ ServerSend(EnvKbdint)
    \/ PacketProcess(EnvKbdint)
    \/ UserauthKbdint(EnvKbdint)
    \/ KbdintGetnprompts
    \/ KbdintGetname
    \/ KbdintGetinstruction
    \/ KbdintGetprompt
    \/ KbdintSetanswer(EnvKbdint)

SpecKbdint == InitKbdint /\ [][NextKbdint]_vars

\* SpecAnswers: the answers of a keyboard-interactive exchange: the caller
\* sets any of two answers in any slot, with any allocation of the setter
\* failing, and the name copy of the request handler failing
EnvAnswers ==
    [EnvKbdint EXCEPT !.packets = InfoRequests(1..KBDINT_MAX_PROMPT, {"ok", "name"})
                                  \cup FailurePackets({<<>>}, {"ok"}),
                      !.answers = {"p", "q"},
                      !.allocs = {"ok", "answers", "strdup"}]

InitAnswers == InitOf(EnvAnswers)

NextAnswers ==
    \/ ServerSend(EnvAnswers)
    \/ PacketProcess(EnvAnswers)
    \/ UserauthKbdint(EnvAnswers)
    \/ KbdintSetanswer(EnvAnswers)

SpecAnswers == InitAnswers /\ [][NextAnswers]_vars

\* SpecAgent: the agent cascade, with the none driver to leave a call
\* pending before it
EnvAgent ==
    [Plain EXCEPT !.services = {SSH_OK},
                  !.faults = {"ok", "sign"},
                  !.terr = {FALSE}]

InitAgent == InitOf(EnvAgent)

NextAgent ==
    \/ ServerSend(EnvAgent)
    \/ PacketProcess(EnvAgent)
    \/ UserauthNone(EnvAgent)
    \/ UserauthAgent(EnvAgent)

SpecAgent == InitAgent /\ [][NextAgent]_vars

\* SpecAuto: the auto cascade over the identity files; the agent is absent
\* or holds at most one identity; a key file is read, missing (SSH_EOF) or
\* unreadable (SSH_ERROR)
EnvAuto ==
    [pubfiles  |-> {SSH_OK, SSH_EOF, SSH_ERROR},
     privfiles |-> {SSH_OK, SSH_EOF, SSH_ERROR},
     exports   |-> {SSH_OK, SSH_ERROR},
     agents    |-> { [running |-> b, idents |-> ids] :
                       b \in BOOLEAN,
                       ids \in {x \in AgentIdentities : Len(x) <= 1 /\ (\A k \in 1..Len(x) : x[k].id = 1)} }]
    @@ [Plain EXCEPT !.services = {SSH_OK},
                     !.faults = {"ok", "send"},
                     !.terr = {FALSE}]

InitAuto == InitOf(EnvAuto)

NextAuto ==
    \/ ServerSend(EnvAuto)
    \/ PacketProcess(EnvAuto)
    \/ UserauthPublickeyAuto(EnvAuto)

SpecAuto == InitAuto /\ [][NextAuto]_vars

\* SpecBanner: the none and keyboard-interactive drivers against a server
\* that sends banners, well-formed or not, between its answers
EnvBanner ==
    [Plain EXCEPT !.types = {SSH2_MSG_USERAUTH_BANNER, SSH2_MSG_USERAUTH_FAILURE,
                             SSH2_MSG_USERAUTH_PK_OK},
                  !.packets = BannerPackets({"hello", "motd"})
                              \cup FailurePackets({<<>>}, {"ok"})
                              \cup { InfoRequest(3, 1, <<[prompt |-> "Password:",
                                                          echo |-> 0]>>, "ok") },
                  !.services = {SSH_OK},
                  !.faults = {"ok"},
                  !.terr = {FALSE}]

InitBanner == InitOf(EnvBanner)

NextBanner ==
    \/ ServerSend(EnvBanner)
    \/ PacketProcess(EnvBanner)
    \/ UserauthNone(EnvBanner)
    \/ UserauthKbdint(EnvBanner)

SpecBanner == InitBanner /\ [][NextBanner]_vars

---------------------------------------------------------------------------
(* Claims about the method drivers, under Spec.                            *)

\* the drivers that keep a pending marker
MarkerDrivers ==
    { "ssh_userauth_none", "ssh_userauth_password", "ssh_userauth_try_publickey",
      "ssh_userauth_publickey", "ssh_userauth_agent_publickey" }

Drivers == MarkerDrivers \cup { "ssh_userauth_kbdint" }

\* the marker each driver sets in the code
MarkerOf(op) ==
    CASE op = "ssh_userauth_none" -> SSH_PENDING_CALL_AUTH_NONE
      [] op = "ssh_userauth_password" -> SSH_PENDING_CALL_AUTH_OFFER_PUBKEY
      [] op = "ssh_userauth_try_publickey" -> SSH_PENDING_CALL_AUTH_OFFER_PUBKEY
      [] op = "ssh_userauth_publickey" -> SSH_PENDING_CALL_AUTH_PUBKEY
      [] op = "ssh_userauth_agent_publickey" -> SSH_PENDING_CALL_AUTH_AGENT

\* the table of section 4.3
ResultOf(state) ==
    CASE state \in {SSH_AUTH_STATE_NONE, SSH_AUTH_STATE_KBDINT_SENT} -> SSH_AUTH_AGAIN
      [] state = SSH_AUTH_STATE_ERROR -> SSH_AUTH_ERROR
      [] state = SSH_AUTH_STATE_FAILED -> SSH_AUTH_DENIED
      [] state = SSH_AUTH_STATE_PARTIAL -> SSH_AUTH_PARTIAL
      [] state = SSH_AUTH_STATE_INFO -> SSH_AUTH_INFO
      [] state \in {SSH_AUTH_STATE_PK_OK, SSH_AUTH_STATE_SUCCESS} -> SSH_AUTH_SUCCESS

\* C1: whenever a marker-keeping driver returns anything but AGAIN, and the
\* return is not the re-entrancy rejection, pending_call_state is NONE.
C1_MarkerClearedOnReturn ==
    (/\ call.op \in MarkerDrivers
     /\ rc # SSH_AUTH_AGAIN
     /\ call.path # "badcall")
    => session.pending_call_state = SSH_PENDING_CALL_NONE

\* C2: a marker-keeping driver whose wait ends with auth_state still NONE
\* returns AGAIN and keeps its marker; called again under its marker it
\* resumes the wait, sends nothing, leaves auth_state alone unless a packet
\* arrives, and once the state is terminal returns the mapped result and
\* clears the marker.
C2_Step ==
    /\ (/\ call'.op \in MarkerDrivers
        /\ call'.path = "waited"
        /\ session'.auth_state = SSH_AUTH_STATE_NONE)
       => /\ rc' = SSH_AUTH_AGAIN
          /\ session'.pending_call_state = MarkerOf(call'.op)
    /\ (/\ call'.op \in MarkerDrivers
        /\ call'.path # "badkey"
        /\ session.pending_call_state = MarkerOf(call'.op))
       => /\ call'.path \in {"waited", "transport"}
          /\ wire' = <<>>
          /\ pkt' = NoPacket => session'.auth_state = session.auth_state
          /\ (call'.path = "waited" /\ ssh_auth_response_termination(session'))
             => /\ rc' = ResultOf(session'.auth_state)
                /\ session'.pending_call_state = SSH_PENDING_CALL_NONE

C2_Resumption == [][C2_Step]_vars

\* a driver has returned AGAIN, and the same driver, called again after the
\* server's answer arrived, has returned the result and cleared the marker
C2_Witness ==
    /\ call.op = "ssh_userauth_none"
    /\ call.path = "waited"
    /\ wire = <<>>
    /\ rc = SSH_AUTH_DENIED
    /\ session.pending_call_state = SSH_PENDING_CALL_NONE

\* C3: a driver called while another driver waits for its answer fails
\* with a fatal error, sends nothing, and leaves pending_call_state and
\* auth_state as they were.
C3_Step ==
    (/\ waiting # "-"
     /\ call'.op \in Drivers
     /\ call'.op # waiting)
    => /\ rc' = SSH_AUTH_ERROR
       /\ session'.error_code = SSH_FATAL
       /\ wire' = <<>>
       /\ session'.pending_call_state = session.pending_call_state
       /\ session'.auth_state = session.auth_state

C3_OneDriverInFlight == [][C3_Step]_vars

\* C4: the password driver and the publickey-offer driver do not resume
\* each other's wait: either one, called while the other waits, is rejected.
C4_Step ==
    (/\ call'.path # "badkey"
     /\ \/ (waiting = "ssh_userauth_try_publickey"
            /\ call'.op = "ssh_userauth_password")
        \/ (waiting = "ssh_userauth_password"
            /\ call'.op = "ssh_userauth_try_publickey"))
    => /\ call'.path = "badcall"
       /\ rc' = SSH_AUTH_ERROR

C4_PasswordMarkerDistinct == [][C4_Step]_vars

\* C5: when the packet loop of a driver returns without a transport error,
\* the driver returns the result the table gives for auth_state, and
\* nothing else.
C5_ResultByState ==
    (call.op \in Drivers /\ call.path = "waited")
    => rc = ResultOf(session.auth_state)

\* a driver has returned AUTH_SUCCESS for the state PK_OK
C5_Witness ==
    /\ call.op \in Drivers
    /\ call.path = "waited"
    /\ session.auth_state = SSH_AUTH_STATE_PK_OK
    /\ rc = SSH_AUTH_SUCCESS

---------------------------------------------------------------------------
(* Claims about USERAUTH_FAILURE, under SpecFailure.                       *)

\* the entries of a comma-separated list
RECURSIVE Entries(_, _)
Entries(list, entry) ==
    IF list = <<>> THEN {entry}
    ELSE IF Head(list) = "," THEN {entry} \cup Entries(Tail(list), <<>>)
    ELSE Entries(Tail(list), Append(entry, Head(list)))

\* the methods whose names are entries of the list
RecognizedEntries(list) ==
    LET names == Entries(list, <<>>)
    IN  (IF str_password \in names THEN {SSH_AUTH_METHOD_PASSWORD} ELSE {})
        \cup (IF str_publickey \in names THEN {SSH_AUTH_METHOD_PUBLICKEY} ELSE {})
        \cup (IF str_hostbased \in names THEN {SSH_AUTH_METHOD_HOSTBASED} ELSE {})
        \cup (IF str_keyboard_interactive \in names
              THEN {SSH_AUTH_METHOD_INTERACTIVE} ELSE {})

WellFormedFailure(p, partial) ==
    /\ p.type = SSH2_MSG_USERAUTH_FAILURE
    /\ p.has_auth
    /\ p.has_partial
    /\ p.partial = partial
    /\ p.alloc = "ok"

\* C6: after a well-formed USERAUTH_FAILURE with partial = 0, auth_state is
\* FAILED, the waiting driver returns DENIED, and auth_methods is exactly
\* the set of recognized names that are entries of the server's list.
C6_FailureMethods ==
    (/\ call.op \in Drivers
     /\ call.path = "waited"
     /\ WellFormedFailure(pkt, 0))
    => /\ session.auth_state = SSH_AUTH_STATE_FAILED
       /\ rc = SSH_AUTH_DENIED
       /\ ssh_userauth_list(session) = RecognizedEntries(pkt.auth)

---------------------------------------------------------------------------
(* Claims about USERAUTH_SUCCESS.                                          *)

\* C7: handling USERAUTH_SUCCESS sets auth_state to SUCCESS and the session
\* state to authenticated, the driver that waited returns AUTH_SUCCESS, and
\* no step takes an authenticated session back.
C7_Step ==
    /\ pkt'.type = SSH2_MSG_USERAUTH_SUCCESS
       => /\ session'.auth_state = SSH_AUTH_STATE_SUCCESS
          /\ session'.session_state = SSH_SESSION_STATE_AUTHENTICATED
          /\ call'.op \in Drivers => rc' = SSH_AUTH_SUCCESS
    /\ session.session_state = SSH_SESSION_STATE_AUTHENTICATED
       => session'.session_state = SSH_SESSION_STATE_AUTHENTICATED

C7_Authenticated == [][C7_Step]_vars

\* a driver has waited for USERAUTH_SUCCESS and returned AUTH_SUCCESS
C7_Witness ==
    /\ call.op = "ssh_userauth_password"
    /\ pkt.type = SSH2_MSG_USERAUTH_SUCCESS
    /\ rc = SSH_AUTH_SUCCESS
    /\ session.session_state = SSH_SESSION_STATE_AUTHENTICATED

\* C8: a step that handles no USERAUTH_SUCCESS leaves both compression
\* flags as they are; handling USERAUTH_SUCCESS turns a direction on when
\* delayed compression was negotiated for it and leaves it alone otherwise.
C8_Step ==
    /\ session'.delayed_compress_in = session.delayed_compress_in
    /\ session'.delayed_compress_out = session.delayed_compress_out
    /\ pkt'.type # SSH2_MSG_USERAUTH_SUCCESS
       => /\ session'.do_compress_in = session.do_compress_in
          /\ session'.do_compress_out = session.do_compress_out
    /\ pkt'.type = SSH2_MSG_USERAUTH_SUCCESS
       => /\ session'.do_compress_in
               = (session.do_compress_in \/ session.delayed_compress_in)
          /\ session'.do_compress_out
               = (session.do_compress_out \/ session.delayed_compress_out)

C8_DelayedCompression == [][C8_Step]_vars

\* USERAUTH_SUCCESS was handled with delayed compression negotiated for the
\* input direction only, and only that direction compresses
C8_Witness ==
    /\ pkt.type = SSH2_MSG_USERAUTH_SUCCESS
    /\ session.delayed_compress_in
    /\ ~session.delayed_compress_out
    /\ session.do_compress_in
    /\ ~session.do_compress_out

---------------------------------------------------------------------------
(* Claims about USERAUTH_INFO_REQUEST, under SpecKbdint.                   *)

\* the step handled message 60 as a USERAUTH_INFO_REQUEST: the transport
\* dispatched it while auth_state was KBDINT_SENT, or the kbdint driver
\* read it while it waited; all three leading strings were there
InfoRequestHandled ==
    /\ pkt'.type = SSH2_MSG_USERAUTH_PK_OK
    /\ pkt'.nfields = 3
    /\ \/ /\ call'.op = "ssh_packet_process"
          /\ session.auth_state = SSH_AUTH_STATE_KBDINT_SENT
       \/ /\ call'.op = "ssh_userauth_kbdint"
          /\ call'.path = "waited"

\* C9: a well-formed USERAUTH_INFO_REQUEST with 1 <= nprompts <=
\* KBDINT_MAX_PROMPT, handled in state KBDINT_SENT with no allocation
\* failing, leaves a live scratch with the server's name, instruction and
\* prompt/echo pairs in order, sets auth_state to INFO and makes the waiting
\* kbdint driver return AUTH_INFO; in state INFO getnprompts returns
\* nprompts and getprompt(i), i < nprompts, the i-th prompt and echo flag.
C9_Step ==
    /\ (/\ InfoRequestHandled
        /\ pkt'.alloc = "ok"
        /\ pkt'.nprompts \in 1..KBDINT_MAX_PROMPT
        /\ Len(pkt'.prompts) = pkt'.nprompts)
       => /\ session'.kbdint.ref = "live"
          /\ session'.kbdint.name = pkt'.name
          /\ session'.kbdint.instruction = pkt'.instruction
          /\ session'.kbdint.nprompts = pkt'.nprompts
          /\ session'.kbdint.prompts
               = [i \in 1..pkt'.nprompts |-> pkt'.prompts[i].prompt]
          /\ session'.kbdint.echo
               = [i \in 1..pkt'.nprompts |-> pkt'.prompts[i].echo]
          /\ session'.auth_state = SSH_AUTH_STATE_INFO
          /\ call'.op = "ssh_userauth_kbdint" => rc' = SSH_AUTH_INFO
    /\ (/\ session.auth_state = SSH_AUTH_STATE_INFO
        /\ call'.op = "ssh_userauth_kbdint_getnprompts")
       => rc' = session.kbdint.nprompts
    /\ (/\ session.auth_state = SSH_AUTH_STATE_INFO
        /\ call'.op = "ssh_userauth_kbdint_getprompt"
        /\ call'.i < session.kbdint.nprompts)
       => /\ rc' = session.kbdint.prompts[call'.i + 1]
          /\ call'.echo = session.kbdint.echo[call'.i + 1]

C9_InfoRequestAccepted == [][C9_Step]_vars

\* C10: a USERAUTH_INFO_REQUEST with nprompts = 0 or nprompts >
\* KBDINT_MAX_PROMPT records a fatal error, does not set auth_state to
\* INFO, and leaves the session's kbdint reference null.
C10_Step ==
    (/\ InfoRequestHandled
     /\ \/ pkt'.nprompts = 0
        \/ pkt'.nprompts > KBDINT_MAX_PROMPT)
    => /\ session'.error_code = SSH_FATAL
       /\ session'.auth_state # SSH_AUTH_STATE_INFO
       /\ session'.kbdint.ref = "NULL"

C10_PromptCountRejected == [][C10_Step]_vars

\* the request is one the handler rejects: a leading string is missing, the
\* prompt count is out of range, or fewer prompts follow than announced
RejectedInfoRequest(p) ==
    /\ p.type = SSH2_MSG_USERAUTH_PK_OK
    /\ \/ p.nfields < 3
       \/ p.nprompts = 0
       \/ p.nprompts > KBDINT_MAX_PROMPT
       \/ Len(p.prompts) < p.nprompts

\* C11: the kbdint driver that reads a rejected USERAUTH_INFO_REQUEST
\* returns AUTH_ERROR and does not leave auth_state at KBDINT_SENT.
C11_Step ==
    (/\ call'.op = "ssh_userauth_kbdint"
     /\ call'.path \in {"waited", "transport"}
     /\ RejectedInfoRequest(pkt')
     /\ pkt'.alloc = "ok")
    => /\ rc' = SSH_AUTH_ERROR
       /\ session'.auth_state # SSH_AUTH_STATE_KBDINT_SENT

C11_RejectedRequestSurfaces == [][C11_Step]_vars

---------------------------------------------------------------------------
(* Claims about USERAUTH_INFO_RESPONSE, under SpecKbdint.  The scratch is  *)
(* the session's record of the current USERAUTH_INFO_REQUEST: it is filled *)
(* when a request is accepted and read when the response is built.         *)

\* the step accepted a USERAUTH_INFO_REQUEST: message 60 was handled and
\* left auth_state at INFO
InfoRequestAccepted ==
    /\ pkt'.type = SSH2_MSG_USERAUTH_PK_OK
    /\ session'.auth_state = SSH_AUTH_STATE_INFO

\* the USERAUTH_INFO_RESPONSE packets the step sent
InfoResponses ==
    { wire'[k] : k \in { j \in 1..Len(wire') :
                           wire'[j].msg = SSH2_MSG_USERAUTH_INFO_RESPONSE } }

\* C12: every USERAUTH_INFO_RESPONSE carries num-responses equal to the
\* nprompts of the most recently handled USERAUTH_INFO_REQUEST and exactly
\* that many strings: an accepted request records its nprompts in a live
\* scratch, no other step changes it while the scratch lives, and a
\* response is built from a live scratch with that count.
C12_Step ==
    /\ InfoRequestAccepted
       => /\ session'.kbdint.ref = "live"
          /\ session'.kbdint.nprompts = pkt'.nprompts
    /\ (/\ ~InfoRequestAccepted
        /\ session.kbdint.ref = "live"
        /\ session'.kbdint.ref = "live")
       => session'.kbdint.nprompts = session.kbdint.nprompts
    /\ \A r \in InfoResponses :
          /\ session.kbdint.ref = "live"
          /\ r.n = session.kbdint.nprompts
          /\ Len(r.answers) = r.n

C12_ResponseCount == [][C12_Step]_vars

\* slot i (from 1) of the answers of a scratch; NULL_STR when the array is
\* not allocated
AnswerSlot(kbd, i) ==
    IF kbd.answers = <<>> THEN NULL_STR ELSE kbd.answers[i]

\* the step is a setanswer(i, s) that returned 0 on a live scratch, for a
\* slot the request announced
AnswerSet ==
    /\ call'.op = "ssh_userauth_kbdint_setanswer"
    /\ rc' = 0
    /\ session.kbdint.ref = "live"
    /\ call'.i < session.kbdint.nprompts

\* C13: response i is the value of the last successful setanswer(i, s)
\* since the current USERAUTH_INFO_REQUEST and the empty string for a slot
\* never set; answers of an earlier request do not appear.  An accepted
\* request leaves no answer, a successful setanswer(i, s) stores s in slot
\* i and changes no other, no other step changes the answers while the
\* scratch lives, and a response carries the slots of a live scratch, ""
\* for an empty one.
C13_Step ==
    /\ InfoRequestAccepted
       => \A i \in 1..session'.kbdint.nprompts :
              AnswerSlot(session'.kbdint, i) = NULL_STR
    /\ AnswerSet
       => \A i \in 1..session.kbdint.nprompts :
              AnswerSlot(session'.kbdint, i)
                = IF i = call'.i + 1 THEN call'.answer
                  ELSE AnswerSlot(session.kbdint, i)
    /\ (/\ ~InfoRequestAccepted
        /\ ~AnswerSet
        /\ session.kbdint.ref = "live"
        /\ session'.kbdint.ref = "live")
       => \A i \in 1..session.kbdint.nprompts :
              AnswerSlot(session'.kbdint, i) = AnswerSlot(session.kbdint, i)
    /\ \A r \in InfoResponses :
          /\ session.kbdint.ref = "live"
          /\ \A i \in 1..session.kbdint.nprompts :
                r.answers[i] = IF AnswerSlot(session.kbdint, i) = NULL_STR THEN ""
                               ELSE AnswerSlot(session.kbdint, i)

C13_ResponseAnswers == [][C13_Step]_vars

---------------------------------------------------------------------------
(* Claims about the kbdint accessors, under SpecKbdint.                    *)

\* C14: on a live scratch setanswer(i, s) and getprompt(i) accept i exactly
\* when i < nprompts: below nprompts they succeed, from nprompts on they
\* fail (-1, NULL) and no slot is read or written.
C14_Step ==
    session.kbdint.ref = "live"
    => /\ call'.op = "ssh_userauth_kbdint_setanswer"
          => IF call'.i < session.kbdint.nprompts
             THEN /\ rc' = 0
                  /\ session'.kbdint.answers[call'.i + 1] = call'.answer
             ELSE /\ rc' = -1
                  /\ session'.kbdint = session.kbdint
       /\ call'.op = "ssh_userauth_kbdint_getprompt"
          => IF call'.i < session.kbdint.nprompts
             THEN /\ rc' = session.kbdint.prompts[call'.i + 1]
                  /\ call'.echo = session.kbdint.echo[call'.i + 1]
             ELSE rc' = NULL_STR

C14_IndexBound == [][C14_Step]_vars

---------------------------------------------------------------------------
(* Claims about sensitive memory.                                          *)

\* the step ran ssh_userauth_kbdint_send on a live scratch up to the
\* release of the scratch
KbdintSent ==
    /\ call'.op = "ssh_userauth_kbdint"
    /\ call'.path \in {"send", "waited", "transport"}
    /\ session.kbdint.ref = "live"

\* the step ran ssh_kbdint_clean on a live scratch: a request with its
\* three leading strings was dispatched in state KBDINT_SENT
KbdintCleaned ==
    /\ call'.op = "ssh_packet_process"
    /\ pkt'.type = SSH2_MSG_USERAUTH_PK_OK
    /\ pkt'.nfields = 3
    /\ session.auth_state = SSH_AUTH_STATE_KBDINT_SENT
    /\ session.kbdint.ref = "live"

\* the step stored or replaced an answer of a live scratch
KbdintAnswered ==
    /\ call'.op = "ssh_userauth_kbdint_setanswer"
    /\ session.kbdint.ref = "live"
    /\ call'.i <= session.kbdint.nprompts
    /\ session'.kbdint.answers # <<>>

\* the stored answers the step deallocated
AnswersReleased ==
    (IF KbdintSent \/ KbdintCleaned
     THEN kbdint_answers_released(session.kbdint) ELSE {})
    \cup (IF KbdintAnswered
          THEN setanswer_released(session.kbdint, call'.i) ELSE {})

\* the wire copies the step deallocated
CopiesReleased ==
    IF KbdintSent THEN kbdint_send_copies(session.kbdint) ELSE {}

\* the slots of the live scratch whose answer is not there after the step
AnswersGone ==
    IF session.kbdint.ref # "live" \/ session.kbdint.answers = <<>> THEN {}
    ELSE { i \in 1..Len(session.kbdint.answers) :
             /\ session.kbdint.answers[i] # NULL_STR
             /\ \/ session'.kbdint.ref # "live"
                \/ session'.kbdint.answers = <<>>
                \/ session'.kbdint.answers[i] # session.kbdint.answers[i] }

\* C15: every answer stored by setanswer is zeroed before it is
\* deallocated, by a later setanswer on its slot, by the clean for a new
\* request and by the free after the response; the wire copies are zeroed
\* too.  Every answer that leaves the scratch in a step is among the
\* strings the step released, and every string released was zeroed.
C15_Step ==
    /\ \A e \in AnswersReleased \cup CopiesReleased : e.zeroed
    /\ \A i \in AnswersGone :
          \E e \in AnswersReleased :
              /\ e.slot = i
              /\ e.str = session.kbdint.answers[i]

C15_AnswersZeroed == [][C15_Step]_vars

\* a response carrying a stored answer has been sent and the scratch is
\* released
C15_Witness ==
    /\ call.op = "ssh_userauth_kbdint"
    /\ session.kbdint.ref = "NULL"
    /\ \E k \in 1..Len(wire) :
          /\ wire[k].msg = SSH2_MSG_USERAUTH_INFO_RESPONSE
          /\ \E i \in 1..wire[k].n : wire[k].answers[i] = "q"

\* the step ran ssh_userauth_password through the building of a new
\* request: no call was pending and the driver got as far as packet_send
PasswordRequestBuilt ==
    /\ call'.op = "ssh_userauth_password"
    /\ call'.path \in {"send", "waited", "transport"}
    /\ session.pending_call_state = SSH_PENDING_CALL_NONE

\* C16: the copy of the password that ssh_userauth_password makes for the
\* request is zeroed before it is deallocated.
C16_Step ==
    PasswordRequestBuilt
    => \A e \in password_copy_released([password |-> "hunter2"]) : e.zeroed

C16_PasswordZeroed == [][C16_Step]_vars

---------------------------------------------------------------------------
(* Claims about the publickey drivers, under Spec.                         *)

\* the publickey USERAUTH_REQUEST packets the step sent
PublickeyRequests ==
    { wire'[k] : k \in { j \in 1..Len(wire') :
                           /\ wire'[j].msg = SSH2_MSG_USERAUTH_REQUEST
                           /\ wire'[j].method = "publickey" } }

SignDrivers == {"ssh_userauth_publickey", "ssh_userauth_agent_publickey"}

\* C17: a publickey request of a sign driver has the boolean 1, then
\* algorithm, key blob and a signature; one of the offer driver has the
\* boolean 0, algorithm and key blob and no signature; a driver whose
\* signing failed sends nothing.
C17_Step ==
    /\ \A r \in PublickeyRequests :
          /\ call'.op \in SignDrivers \cup {"ssh_userauth_try_publickey"}
          /\ {"algo", "blob"} \subseteq DOMAIN r
          /\ call'.op \in SignDrivers
             => /\ r.flag = 1
                /\ "signature" \in DOMAIN r
                /\ r.signature.key = r.blob.blob_of
          /\ call'.op = "ssh_userauth_try_publickey"
             => /\ r.flag = 0
                /\ "signature" \notin DOMAIN r
    /\ call'.path = "fail" => wire' = <<>>

C17_PublickeyRequestShape == [][C17_Step]_vars

\* a sign driver has sent a signed request
C17_Witness ==
    /\ call.op = "ssh_userauth_publickey"
    /\ Len(wire) = 1
    /\ wire[1].flag = 1
    /\ wire[1].signature.by = "key"

\* what a call that fails on its key argument returns from session s: a
\* fatal error is recorded and nothing else is done
KeyRefused(s, r) ==
    /\ r.rc = SSH_AUTH_ERROR
    /\ r.wire = <<>>
    /\ r.used = 0
    /\ r.s = [s EXCEPT !.error_code = SSH_FATAL]

\* C18: in every reachable state, pending call or not,
\* ssh_userauth_try_publickey with a key that is not public and
\* ssh_userauth_publickey with a key that is not private return ERROR at
\* once: no service request, no packet, and pending_call_state, auth_state,
\* auth_methods and the kbdint scratch as they were.
C18_KeyArgumentChecked ==
    \A i \in Inputs(Env, {"ok", "oom", "sign", "send"}), key \in Keys :
        /\ ~ssh_key_is_public(key)
           => KeyRefused(session,
                         ssh_userauth_try_publickey(session, i @@ [key |-> key]))
        /\ ~ssh_key_is_private(key)
           => KeyRefused(session,
                         ssh_userauth_publickey(session, i @@ [key |-> key]))

\* an offer with a key that is not public was refused while another call
\* was pending
C18_Witness ==
    /\ call.op = "ssh_userauth_try_publickey"
    /\ call.path = "badkey"
    /\ rc = SSH_AUTH_ERROR
    /\ session.pending_call_state = SSH_PENDING_CALL_AUTH_NONE
    /\ session.error_code = SSH_FATAL


---------------------------------------------------------------------------
(* Claims about the cascades.  The log of a cascade call lists its driver  *)
(* calls in order; idents lists the ids of the identities in enumeration   *)
(* order.                                                                  *)

\* the place of identity id in the enumeration ids
PlaceOf(ids, id) == CHOOSE n \in 1..Len(ids) : ids[n] = id

\* entry n of log L moves on to the next identity of ids: the next entry is
\* the offer of the identity after it, and there is none after the last
MovesOn(L, ids, n) ==
    LET at == PlaceOf(ids, L[n].key)
    IN  IF at = Len(ids) THEN n = Len(L)
        ELSE /\ n < Len(L)
             /\ L[n + 1].op = "offer"
             /\ L[n + 1].key = ids[at + 1]

\* entry n of L is the last and the cascade returned code
EndsWith(L, n, code) == n = Len(L) /\ rc' = code

C19_Step ==
    call'.op = "ssh_userauth_agent" =>
        LET L   == call'.log
            ids == call'.idents
        IN  /\ L # <<>> => (L[1].op = "offer" /\ ids # <<>> /\ L[1].key = ids[1])
            /\ \A n \in 1..Len(L) :
                 /\ L[n].key \in { ids[k] : k \in 1..Len(ids) }
                 /\ L[n].op = "offer" =>
                      IF L[n].rc = SSH_AUTH_ERROR THEN EndsWith(L, n, SSH_AUTH_ERROR)
                      ELSE IF L[n].rc = SSH_AUTH_SUCCESS
                      THEN /\ n < Len(L)
                           /\ L[n + 1].op = "sign"
                           /\ L[n + 1].key = L[n].key
                      ELSE MovesOn(L, ids, n)
                 /\ L[n].op = "sign" =>
                      /\ n > 1
                      /\ L[n - 1] = [op |-> "offer", key |-> L[n].key, rc |-> SSH_AUTH_SUCCESS]
                      /\ IF L[n].rc = SSH_AUTH_ERROR THEN EndsWith(L, n, SSH_AUTH_ERROR)
                         ELSE IF L[n].rc = SSH_AUTH_SUCCESS
                         THEN EndsWith(L, n, SSH_AUTH_SUCCESS)
                         ELSE MovesOn(L, ids, n)
            /\ rc' = SSH_AUTH_SUCCESS =>
                 (L # <<>> /\ L[Len(L)].op = "sign" /\ L[Len(L)].rc = SSH_AUTH_SUCCESS)

\* C19: the agent driver offers the agent's identities in enumeration
\* order; an identity whose offer returns anything but SUCCESS or ERROR is
\* skipped, an offer that returns SUCCESS is followed by one agent-signed
\* request for the same identity, the first signed request that returns
\* SUCCESS ends the cascade with SUCCESS and no later identity is tried, and
\* an ERROR from an offer or a signed request ends the cascade with ERROR.
C19_AgentCascade == [][C19_Step]_vars

\* the first identity was skipped, the second was offered, signed for and
\* accepted
C19_Witness ==
    /\ call.op = "ssh_userauth_agent"
    /\ Len(call.idents) = 2
    /\ Len(call.log) = 3
    /\ call.log[1] = [op |-> "offer", key |-> call.idents[1], rc |-> SSH_AUTH_DENIED]
    /\ call.log[2] = [op |-> "offer", key |-> call.idents[2], rc |-> SSH_AUTH_SUCCESS]
    /\ call.log[3] = [op |-> "sign", key |-> call.idents[2], rc |-> SSH_AUTH_SUCCESS]
    /\ rc = SSH_AUTH_SUCCESS
    /\ session.session_state = SSH_SESSION_STATE_AUTHENTICATED


\* entry n of log L of the auto cascade continues to the next identity file
\* of ids: the next entry imports the public key of the file after it, and
\* after the last file the cascade returns AUTH_DENIED
AutoContinues(L, ids, n) ==
    LET at == PlaceOf(ids, L[n].key)
    IN  IF at = Len(ids) THEN EndsWith(L, n, SSH_AUTH_DENIED)
        ELSE /\ n < Len(L)
             /\ L[n + 1] = [op |-> "ssh_pki_import_pubkey_file", key |-> ids[at + 1],
                            rc |-> L[n + 1].rc]

\* the identity of entry n is refused there: a key file is unreadable, or
\* the offer or the signed request returns neither SUCCESS nor ERROR
AutoRefused(L, n) ==
    \/ L[n].op = "ssh_pki_import_pubkey_file" /\ L[n].rc = SSH_ERROR
    \/ L[n].op = "ssh_pki_import_privkey_file" /\ L[n].rc \in {SSH_ERROR, SSH_EOF}
    \/ /\ L[n].op \in {"ssh_userauth_try_publickey", "ssh_userauth_publickey"}
       /\ L[n].rc \notin {SSH_AUTH_SUCCESS, SSH_AUTH_ERROR}

C20_Step ==
    call'.op = "ssh_userauth_publickey_auto" =>
        LET L   == call'.log
            ids == call'.idents
        IN  /\ \A n \in 1..Len(L) :
                 /\ AutoRefused(L, n) => AutoContinues(L, ids, n)
                 /\ (/\ L[n].op \in {"ssh_userauth_try_publickey", "ssh_userauth_publickey"}
                     /\ L[n].rc = SSH_AUTH_ERROR) => EndsWith(L, n, SSH_AUTH_ERROR)
                 /\ (L[n].op = "ssh_userauth_publickey" /\ L[n].rc = SSH_AUTH_SUCCESS)
                        => EndsWith(L, n, SSH_AUTH_SUCCESS)
            /\ rc' \notin {SSH_AUTH_SUCCESS, SSH_AUTH_ERROR} => rc' = SSH_AUTH_DENIED

\* C20: over the identity-file list the auto driver continues to the next
\* identity when one is refused (offer denied, public or private key file
\* unreadable, signature refused or only partially accepted), returns ERROR
\* as soon as an offer or a sign driver returns ERROR, returns SUCCESS at
\* the first identity whose signed request succeeds, and returns
\* AUTH_DENIED when the list is exhausted without SUCCESS or ERROR.
C20_AutoCascade == [][C20_Step]_vars


\* the entries of log L that the agent stage of the auto cascade made
AgentEntries(L) == { n \in 1..Len(L) : L[n].op \in {"offer", "sign"} }

\* the agent gave no SUCCESS and none of its driver calls returned ERROR
AgentYieldsNothing(L) ==
    \A n \in AgentEntries(L) :
        /\ L[n].rc # SSH_AUTH_ERROR
        /\ ~(L[n].op = "sign" /\ L[n].rc = SSH_AUTH_SUCCESS)

\* the cascade went on to the identity files ids: it read the first of
\* them, and with no file it returned AUTH_DENIED
ReachesFiles(L, ids) ==
    IF ids = <<>> THEN rc' = SSH_AUTH_DENIED
    ELSE \E n \in 1..Len(L) :
            L[n].op = "ssh_pki_import_pubkey_file" /\ L[n].key = ids[1]

\* the server accepted the offer and the signature of identity file id
FileAccepted(L, id) ==
    /\ \E n \in 1..Len(L) :
          L[n] = [op |-> "ssh_userauth_try_publickey", key |-> id, rc |-> SSH_AUTH_SUCCESS]
    /\ \E n \in 1..Len(L) :
          L[n] = [op |-> "ssh_userauth_publickey", key |-> id, rc |-> SSH_AUTH_SUCCESS]

C21_Step ==
    (/\ call'.op = "ssh_userauth_publickey_auto"
     /\ call'.agent.running
     /\ AgentYieldsNothing(call'.log))
        => /\ ReachesFiles(call'.log, call'.idents)
           /\ (Len(call'.idents) = 1 /\ FileAccepted(call'.log, call'.idents[1]))
                  => rc' = SSH_AUTH_SUCCESS

\* C21: when an agent is present but gives no SUCCESS and no driver ERROR
\* (it has no identities, or the server refuses every one of them), the
\* auto driver goes on to the identity-file list; with one identity file
\* whose offer and signature the server accepts it then returns SUCCESS.
C21_AgentFallsThrough == [][C21_Step]_vars


---------------------------------------------------------------------------
(* Claims about errors and the service request, under Spec.                *)

\* a packet handler has recorded a fatal protocol error
FatalCondition(s) ==
    s.auth_state = SSH_AUTH_STATE_ERROR /\ s.error_code = SSH_FATAL

C22_Step ==
    (FatalCondition(session) /\ call'.op \in Drivers)
        => (rc' = SSH_AUTH_ERROR /\ wire' = <<>>)

\* C22: once a malformed or out-of-bounds server packet has put the session
\* in the fatal-error condition, every later driver call is refused: it
\* returns ERROR and sends no packet.
C22_RefusedAfterFatal == [][C22_Step]_vars


\* call r, made in session s with inputs in, stopped at the service request:
\* it returned what the claim says, sent nothing and left the marker and
\* auth_state alone
ServiceRefused(s, in, r) ==
    /\ in.service = SSH_AGAIN => r.rc = SSH_AUTH_AGAIN
    /\ in.service = SSH_ERROR => r.rc = SSH_AUTH_ERROR
    /\ r.wire = <<>>
    /\ r.s.pending_call_state = s.pending_call_state
    /\ r.s.auth_state = s.auth_state

\* the five marker-keeping drivers start a fresh request when no call is
\* pending and their key argument is of the right kind
MarkerDriversRefused(s, i, key) ==
    /\ ServiceRefused(s, i, ssh_userauth_none(s, i))
    /\ ServiceRefused(s, i, ssh_userauth_password(s, i @@ [password |-> "hunter2"]))
    /\ ssh_key_is_public(key)
          => /\ ServiceRefused(s, i, ssh_userauth_try_publickey(s, i @@ [key |-> key]))
             /\ ServiceRefused(s, i, ssh_userauth_agent_publickey(s, i @@ [key |-> key]))
    /\ ssh_key_is_private(key)
          => ServiceRefused(s, i, ssh_userauth_publickey(s, i @@ [key |-> key]))

\* C23: every driver that starts a fresh request (none, password, offer,
\* sign, agent sign, kbdint init) first requests the ssh-userauth service;
\* when that returns AGAIN the driver returns AGAIN, when it returns ERROR
\* the driver returns ERROR, and in both cases no USERAUTH_REQUEST is sent
\* and pending_call_state and auth_state are unchanged.
C23_ServiceRequestFirst ==
    \A i \in Inputs(Env, {"ok", "oom", "sign", "send"}), key \in Keys :
        (~session.service_accepted /\ i.service # SSH_OK)
            => /\ session.pending_call_state = SSH_PENDING_CALL_NONE
                     => MarkerDriversRefused(session, i, key)
               /\ session.kbdint.ref = "NULL"
                     => ServiceRefused(session, i,
                                       ssh_userauth_kbdint(session,
                                           i @@ [submethods |-> "", stale |-> KbdNull]))


---------------------------------------------------------------------------
(* Claims about the keyboard-interactive driver, under SpecKbdint.         *)

\* the last call was ssh_userauth_kbdint and it returned AGAIN from its
\* wait: no response has arrived yet
KbdintAwaits ==
    /\ call.op = "ssh_userauth_kbdint"
    /\ call.path = "waited"
    /\ rc = SSH_AUTH_AGAIN

C24_Step ==
    KbdintAwaits
        => /\ session.pending_call_state # SSH_PENDING_CALL_NONE
           /\ call'.op = "ssh_userauth_kbdint" => wire' = <<>>

\* C24: ssh_userauth_kbdint is re-entrant under AGAIN: when kbdint init or
\* kbdint send returns AGAIN because no response has arrived, the pending
\* marker records the kbdint call, and calling ssh_userauth_kbdint again
\* resumes the wait without a second keyboard-interactive USERAUTH_REQUEST
\* or a second INFO_RESPONSE.
C24_KbdintReentrant == [][C24_Step]_vars


---------------------------------------------------------------------------
(* Claims about requests in flight, under Spec.                            *)

\* a request has been sent, its driver returned AGAIN, and no terminal
\* response to it has been handled since
InFlight ==
    waiting # "-" /\ ~ssh_auth_response_termination(session)

C25_Step ==
    /\ (InFlight /\ call'.op \in Drivers) => wire' = <<>>
    /\ (/\ call'.op \in Drivers
        /\ call'.path = "waited"
        /\ wire' = <<>>
        /\ rc' # SSH_AUTH_AGAIN) => waiting = call'.op

\* C25: at most one authentication request is in flight: the client never
\* sends a new USERAUTH_REQUEST or INFO_RESPONSE while an earlier one has
\* not received its terminal response, so the result a driver returns comes
\* from the response to that driver's own request.
C25_OneRequestInFlight == [][C25_Step]_vars


---------------------------------------------------------------------------
(* Claims about the packet handlers.                                       *)

C26_Step ==
    WellFormedFailure(pkt', 1)
        => /\ session'.auth_state = SSH_AUTH_STATE_PARTIAL
           /\ (call'.op \in Drivers /\ call'.path = "waited") => rc' = SSH_AUTH_PARTIAL
           /\ session'.auth_methods
                 = session.auth_methods \cup RecognizedEntries(pkt'.auth)

\* C26: a well-formed USERAUTH_FAILURE with partial = 1 sets auth_state to
\* PARTIAL, the waiting driver returns AUTH_PARTIAL, and auth_methods is not
\* cleared: afterwards it is the union of its previous value and the
\* recognized method names of the packet's list.
C26_PartialKeepsMethods == [][C26_Step]_vars


\* a USERAUTH_FAILURE cut short: the method list or the partial flag is
\* missing
MalformedFailure(p) ==
    /\ p.type = SSH2_MSG_USERAUTH_FAILURE
    /\ ~p.has_auth \/ ~p.has_partial

C27_Step ==
    MalformedFailure(pkt')
        => /\ session'.auth_state = SSH_AUTH_STATE_ERROR
           /\ session'.error_code = SSH_FATAL
           /\ session'.auth_methods = session.auth_methods
           /\ (call'.op \in Drivers /\ call'.path = "waited")
                 => /\ rc' = SSH_AUTH_ERROR
                    /\ session'.pending_call_state = SSH_PENDING_CALL_NONE

\* C27: a USERAUTH_FAILURE that lacks the method list or the partial flag
\* sets auth_state to ERROR with a fatal session error, leaves auth_methods
\* unchanged, and makes the waiting driver return AUTH_ERROR with
\* pending_call_state reset to NONE.
C27_MalformedFailure == [][C27_Step]_vars


\* session s after a banner packet p by the claim: only the stored banner
\* may differ, and only a well-formed packet replaces it
BannerEffect(s, p) ==
    [s EXCEPT !.banner = IF p.has_banner THEN p.banner ELSE s.banner]

\* the step handled exactly one packet
OnePacket == Len(inq) = Len(inq') + 1

C28_Step ==
    pkt'.type = SSH2_MSG_USERAUTH_BANNER
        => /\ call'.op = "ssh_packet_process" => session' = BannerEffect(session, pkt')
           /\ (call'.op \in MarkerDrivers /\ wire' = <<>> /\ OnePacket)
                 => session' = BannerEffect(session, pkt')
           /\ call'.op \in Drivers
                 => /\ rc' = SSH_AUTH_AGAIN
                    /\ ~ssh_auth_response_termination(session')
                    /\ session'.auth_methods = session.auth_methods
                    /\ session'.session_state = session.session_state
                    /\ call'.op \in MarkerDrivers
                          => session'.pending_call_state = MarkerOf(call'.op)

\* C28: handling a USERAUTH_BANNER, well-formed or not, changes at most the
\* stored banner: auth_state, pending_call_state, auth_methods, the session
\* state and the kbdint scratch stay as they are, so a driver that waits
\* for its response keeps waiting; a well-formed banner replaces the stored
\* one, a malformed banner leaves it as it was.
C28_BannerFrame == [][C28_Step]_vars

\* the none driver resumed its wait, read a malformed banner and waits on;
\* the banner stored before is still there
C28_Witness ==
    /\ call.op = "ssh_userauth_none"
    /\ wire = <<>>
    /\ pkt.type = SSH2_MSG_USERAUTH_BANNER
    /\ ~pkt.has_banner
    /\ session.banner = "motd"
    /\ rc = SSH_AUTH_AGAIN
    /\ session.pending_call_state = SSH_PENDING_CALL_AUTH_NONE


\* message 60 was parsed as USERAUTH_INFO_REQUEST: PK_OK is not set, and
\* where the request is accepted the scratch holds its prompts
ParsedAsInfoRequest ==
    /\ session'.auth_state # SSH_AUTH_STATE_PK_OK
    /\ session'.auth_state \in {SSH_AUTH_STATE_INFO, SSH_AUTH_STATE_KBDINT_SENT}
    /\ session'.auth_state = SSH_AUTH_STATE_INFO
          => /\ session'.kbdint.ref = "live"
             /\ session'.kbdint.nprompts = pkt'.nprompts

\* message 60 was taken for USERAUTH_PK_OK
TakenAsPkOk ==
    /\ session'.auth_state = SSH_AUTH_STATE_PK_OK
    /\ session'.kbdint = session.kbdint

\* the step handled message 60 and nothing else; before is the auth_state
\* the handler found
Message60(before) ==
    IF before = SSH_AUTH_STATE_KBDINT_SENT THEN ParsedAsInfoRequest ELSE TakenAsPkOk

C29_Step ==
    (pkt'.type = SSH2_MSG_USERAUTH_PK_OK /\ OnePacket)
        => /\ call'.op = "ssh_packet_process" => Message60(session.auth_state)
           /\ (call'.op \in MarkerDrivers /\ wire' = <<>>) => Message60(session.auth_state)
           /\ (call'.op \in MarkerDrivers /\ wire' # <<>>) => Message60(SSH_AUTH_STATE_NONE)
           /\ (call'.op = "ssh_userauth_kbdint" /\ wire' # <<>>)
                 => Message60(SSH_AUTH_STATE_KBDINT_SENT)

\* C29: a message-60 packet is interpreted by context, not by payload: when
\* auth_state is KBDINT_SENT it is parsed as USERAUTH_INFO_REQUEST and never
\* sets PK_OK; in every other auth_state it sets auth_state to PK_OK and
\* leaves the kbdint scratch untouched.
C29_Message60ByContext == [][C29_Step]_vars

\* the offer driver read a message 60 that carries a whole INFO_REQUEST
\* while a scratch was live: PK_OK, and the scratch is as it was
C29_Witness ==
    /\ call.op = "ssh_userauth_try_publickey"
    /\ pkt.type = SSH2_MSG_USERAUTH_PK_OK
    /\ pkt.nfields = 3
    /\ session.auth_state = SSH_AUTH_STATE_PK_OK
    /\ session.kbdint.ref = "live"
    /\ session.kbdint.nprompts = 1
    /\ rc = SSH_AUTH_SUCCESS


---------------------------------------------------------------------------
(* Claims about the paths of ssh_userauth_kbdint, under SpecKbdint.        *)

\* the one packet the call sent is of message type msg
SentOnly(w, msg) == Len(w) = 1 /\ w[1].msg = msg

C30_Step ==
    call'.op = "ssh_userauth_kbdint"
        => /\ session.kbdint.ref # "live" => SentOnly(wire', SSH2_MSG_USERAUTH_REQUEST)
           /\ session.kbdint.ref = "live"
                 => SentOnly(wire', SSH2_MSG_USERAUTH_INFO_RESPONSE)
           /\ (SentOnly(wire', SSH2_MSG_USERAUTH_INFO_RESPONSE) /\ pkt' = NoPacket)
                 => /\ session'.kbdint.ref = "NULL"
                    /\ session'.auth_state = SSH_AUTH_STATE_KBDINT_SENT
           /\ (/\ call.op = "ssh_userauth_kbdint"
               /\ SentOnly(wire, SSH2_MSG_USERAUTH_INFO_RESPONSE)
               /\ pkt = NoPacket) => SentOnly(wire', SSH2_MSG_USERAUTH_REQUEST)

\* C30: ssh_userauth_kbdint sends an init USERAUTH_REQUEST exactly when no
\* kbdint scratch is live and an INFO_RESPONSE exactly when one is live;
\* once the INFO_RESPONSE is built the scratch is released and auth_state is
\* KBDINT_SENT before any response is awaited, so a following call without
\* a new INFO_REQUEST takes the init path.
C30_KbdintPaths == [][C30_Step]_vars


---------------------------------------------------------------------------
(* Claims about the scratch between operations.                            *)

\* C31: whenever the kbdint scratch is live between operations, nanswers
\* equals nprompts, and an allocated answers array has exactly nprompts
\* slots.
C31_AnswerCount ==
    session.kbdint.ref = "live"
        => /\ session.kbdint.nanswers = session.kbdint.nprompts
           /\ session.kbdint.answers # <<>>
                 => Len(session.kbdint.answers) = session.kbdint.nprompts

\* the caller has set an answer in a live scratch of two prompts
C31_Witness ==
    /\ call.op = "ssh_userauth_kbdint_setanswer"
    /\ rc = 0
    /\ session.kbdint.ref = "live"
    /\ session.kbdint.nprompts = 2
    /\ Len(session.kbdint.answers) = 2


---------------------------------------------------------------------------
(* Claims about the result of the drivers, under Spec.                     *)

\* the drivers whose request the server answers with success or failure
\* only: every driver but the offer
DecidingDrivers == Drivers \ { "ssh_userauth_try_publickey" }

C32_Step ==
    (call'.op \in DecidingDrivers /\ rc' = SSH_AUTH_SUCCESS)
        => /\ session'.auth_state = SSH_AUTH_STATE_SUCCESS
           /\ session'.session_state = SSH_SESSION_STATE_AUTHENTICATED
           /\ pkt'.type # SSH2_MSG_USERAUTH_PK_OK

\* C32: the none, password, publickey, agent-sign and kbdint drivers return
\* AUTH_SUCCESS only when the server answered USERAUTH_SUCCESS, that is only
\* with the session authenticated; a message-60 packet never makes one of
\* them report success.
C32_SuccessMeansAuthenticated == [][C32_Step]_vars


---------------------------------------------------------------------------
(* Claims about the cascades as a whole, under SpecAgent and SpecAuto.     *)

Cascades == { "ssh_userauth_agent", "ssh_userauth_publickey_auto" }

\* packet k of w is a publickey request with boolean flag for key id
IsPublickeyRequest(w, k, flag, id) ==
    /\ w[k].msg = SSH2_MSG_USERAUTH_REQUEST
    /\ w[k].method = "publickey"
    /\ w[k].flag = flag
    /\ w[k].blob.blob_of = id

\* entry e of a cascade's log is a call of ssh_userauth_try_publickey
IsOffer(e) == e.op \in { "offer", "ssh_userauth_try_publickey" }

\* entry k of log L is an offer of key id that returned SUCCESS
OfferAccepted(L, k, id) ==
    IsOffer(L[k]) /\ L[k].key = id /\ L[k].rc = SSH_AUTH_SUCCESS

\* the offer before entry k of log L, if any, returned AGAIN
OfferLeftWaiting(L, k) ==
    \E i \in 1..(k - 1) :
        /\ IsOffer(L[i]) /\ L[i].rc = SSH_AUTH_AGAIN
        /\ \A m \in (i + 1)..(k - 1) : ~IsOffer(L[m])

C33_Step ==
    call'.op \in Cascades
        => /\ \A j \in 1..Len(wire'), id \in 1..MaxIdentities :
                 IsPublickeyRequest(wire', j, 1, id)
                     => \E i \in 1..(j - 1) : IsPublickeyRequest(wire', i, 0, id)
           /\ \A k \in 1..Len(call'.log) :
                 OfferLeftWaiting(call'.log, k)
                     => ~OfferAccepted(call'.log, k, call'.log[k].key)

\* C33: in the agent and auto cascades a signed publickey request for a key
\* is sent only after the server answered an offer of that same key with
\* PK_OK: an offer that returned AGAIN for one identity is never resumed by
\* the offer call made for the next identity, and its late PK_OK is never
\* credited to another key.
C33_SignAfterOwnOffer == [][C33_Step]_vars


C34_Step ==
    (call'.op \in Cascades /\ session.pending_call_state = SSH_PENDING_CALL_NONE)
        => /\ rc' \in { SSH_AUTH_SUCCESS, SSH_AUTH_DENIED, SSH_AUTH_ERROR }
           /\ session'.pending_call_state = SSH_PENDING_CALL_NONE

\* C34: ssh_userauth_agent and ssh_userauth_publickey_auto never return
\* AGAIN, and whenever either returns, pending_call_state is NONE, so the
\* caller can start any other driver afterwards.
C34_CascadeLeavesNoMarker == [][C34_Step]_vars


---------------------------------------------------------------------------
(* Claims about the scratch and auth_state, under SpecKbdint.              *)

\* C35: between operations the session's kbdint reference is null or refers
\* to a scratch that has not been freed: no path of the INFO_REQUEST
\* handler frees the scratch and leaves the session pointing at it.
C35_NoDanglingScratch == session.kbdint.ref \in { "NULL", "live" }


\* C36: in every state with auth_state INFO the kbdint scratch is live,
\* its nprompts lies in 1..KBDINT_MAX_PROMPT and each of its nprompts
\* prompt slots is non-null; nothing releases the scratch while auth_state
\* stays INFO.
C36_InfoHasPrompts ==
    session.auth_state = SSH_AUTH_STATE_INFO
        => /\ session.kbdint.ref = "live"
           /\ session.kbdint.nprompts \in 1..KBDINT_MAX_PROMPT
           /\ Len(session.kbdint.prompts) = session.kbdint.nprompts
           /\ \A i \in 1..session.kbdint.nprompts :
                 session.kbdint.prompts[i] # NULL_STR


---------------------------------------------------------------------------
(* Claims about the keyboard-interactive driver among the others, under    *)
(* Spec.                                                                   *)

C37_Step ==
    (/\ call'.op = "ssh_userauth_kbdint"
     /\ \E k \in 1..Len(wire') : wire'[k].msg = SSH2_MSG_USERAUTH_INFO_RESPONSE)
        => session.auth_state = SSH_AUTH_STATE_INFO

\* C37: a USERAUTH_INFO_RESPONSE is emitted only as the reply to an
\* unanswered INFO_REQUEST, that is only when auth_state is INFO at the
\* time ssh_userauth_kbdint is called: after another driver ran and got its
\* own response, a later ssh_userauth_kbdint call sends no INFO_RESPONSE
\* built from the stale scratch.
C37_ResponseOnlyToRequest == [][C37_Step]_vars


---------------------------------------------------------------------------
(* Termination of a driver call.  SpecLive is a caller that makes one      *)
(* driver call at a time and repeats it while it returns AGAIN, against a  *)
(* server that answers every packet of the client with one packet:         *)
(* USERAUTH_SUCCESS, USERAUTH_FAILURE or message 60, whole or cut short.   *)
(* No allocation fails, the transport does not fail, and a driver's wait   *)
(* reads the answer once the server has sent it.                           *)

EnvLive ==
    [Plain EXCEPT !.packets = FailurePackets({<<>>}, {"ok"}) \cup SuccessPackets
                              \cup InfoRequests(0..1, {"ok"}),
                  !.services = {SSH_OK},
                  !.faults = {"ok"},
                  !.terr = {FALSE}]

InitLive == InitOf(EnvLive)

\* the server answers the packet the last call sent
ServerAnswer == wire # <<>> /\ ServerSend(EnvLive)

\* the caller calls once the server has answered; a call that returned
\* AGAIN is the one the caller makes again
CallerReady == wire = <<>>
CallerDone == inq' = <<>> /\ (waiting # "-" => call'.op = waiting)

LiveNone == CallerReady /\ UserauthNone(EnvLive) /\ CallerDone
LivePassword == CallerReady /\ UserauthPassword(EnvLive) /\ CallerDone
LiveTryPublickey == CallerReady /\ UserauthTryPublickey(EnvLive) /\ CallerDone
LivePublickey == CallerReady /\ UserauthPublickey(EnvLive) /\ CallerDone
LiveAgentPubkey == CallerReady /\ UserauthAgentPubkey(EnvLive) /\ CallerDone
LiveKbdint == CallerReady /\ UserauthKbdint(EnvLive) /\ CallerDone

LiveCall ==
    \/ LiveNone
    \/ LivePassword
    \/ LiveTryPublickey
    \/ LivePublickey
    \/ LiveAgentPubkey
    \/ LiveKbdint

NextLive == ServerAnswer \/ LiveCall

\* the server answers in the end, and the caller goes on repeating a call
\* that returned AGAIN
SpecLive ==
    /\ InitLive
    /\ [][NextLive]_vars
    /\ WF_vars(ServerAnswer)
    /\ WF_vars(waiting # "-" /\ LiveCall)

\* C38: when the transport does not fail and the server answers every
\* request with one packet (SUCCESS, FAILURE or message 60, well-formed or
\* not), every driver call, repeated by the caller while it returns AGAIN,
\* returns something other than AGAIN in the end.
C38_CallReturns == (waiting # "-") ~> (waiting = "-")

===========================================================================
